---- MODULE Spec2Model ----
(***************************************************************************)
(* Story video synthesis: the Flask front door of backend/app.py           *)
(* (generate_video_api, generate_video_background, check_video_status,     *)
(* the storyboard) and StoryVideoGenerator.generate_video of               *)
(* backend/story_video_generator.py.                                       *)
(*                                                                         *)
(* Spec      the front door: several request threads, storyboard changes,  *)
(*           generate_video run as one call whose outcome the             *)
(*           collaborators decide.                                         *)
(* PipeSpec  one request on an arbitrary storyboard, generate_video run    *)
(*           stage by stage, every collaborator outcome drawn.             *)
(* FairPipeSpec  PipeSpec with the worker thread scheduled fairly.         *)
(* VideoSpec     generate_video called directly, with or without music.    *)
(* EffectSpec    get_random_effect_combination called for scene indexes.   *)
(* GeometrySpec  EnhancedVideoEffects applied at sampled progress values.  *)
(* MergeSpec     the looping and trimming of merge_audio_with_music.       *)
(* EnhanceSpec   enhance_image, modify_image and the threads they start.   *)
(***************************************************************************)
EXTENDS Integers, Sequences, FiniteSets, TLC

\* ------------------------------------------------------------- bounds
MaxHandlers == 2     \* request threads of a route (Spec, EnhanceSpec)
MaxBoard == 2        \* storyboard length that add requests stop at in Spec
MaxImages == 4       \* longest storyboard PipeSpec starts from
MaxNarr == 4         \* longest scene_narrations array the narrative model returns
MaxTextLen == 2      \* longest unwrapped narrative response, in tokens

Paths == {"A", "B", "C"}
BoardPaths == {"A", "B"}   \* the files add requests name in Spec
DurUnit == 100       \* clip.duration is a float of seconds: hundredths here
DurChoices == {2, 10, 16}   \* clip durations AudioFileClip reports (0.02 s, 0.10 s, 0.16 s)

Handlers == 1..MaxHandlers
Workers == Handlers           \* a worker thread is named after the request thread that started it
MaxClock == 2 * MaxHandlers   \* the latest clock reading (and request id)
RequestIds == 1..MaxClock
PipeHandlers == {1}

None == <<>>          \* Python None, where a path is expected
NoError == "no error"

VARIABLES
    storyboard_images,        \* app.py: the global list of storyboard paths
    is_video_processing,      \* app.py: the busy flag
    video_processing_status,  \* app.py: request id -> status record
    clock,                    \* what datetime.now().timestamp() reads now
    hpc,                      \* position of each generate_video_api thread
    request_id,               \* its local request_id (0: not yet drawn)
    http_response,            \* the HTTP response it returned
    wpc,                      \* position of the generate_video_background thread each request started
    video_path,               \* its local video_path
    gpc,                      \* position inside generate_video, per worker
    image_paths,              \* generate_video's local image_paths, per worker
    gemini_key,               \* whether GEMINI_API_KEY is set in the environment
    image_descriptions,       \* analyze_images: local image_descriptions
    response,                 \* analyze_images: local "response"
    story_data,               \* generate_video: local story_data
    calls,                    \* collaborator calls made so far, in order
    audio_paths,              \* narration files written, in unit order
    durations,                \* generate_video: local durations
    all_frames,               \* generate_video: the rendered blocks, in order
    output_dir,               \* files in the output directory
    error,                    \* the exception generate_video caught
    include_music,            \* generate_video: the parameter include_music
    music_description,        \* generate_background_music: local music_description
    music_path,               \* generate_video: local music_path
    final_audio,              \* generate_video: local final_audio
    temp_files,               \* files in temp_processing and gen_music
    selected,                 \* get_random_effect_combination: what each call returned
    window,                   \* EnhancedVideoEffects: the crop of the last frame rendered
    merged,                   \* merge_audio_with_music: the durations of its last run
    accepted_board,           \* history: the storyboard when each request was accepted
    GEMINI_API_KEY,           \* app.py: whether GOOGLE_API_KEY was set at start
    is_processing,            \* app.py: the busy flag of enhancement and modification
    processing_status,        \* app.py: request id -> status of an enhancement
    epc,                      \* where each enhance-image / modify-image request thread is
    endpoint,                 \* which of the two routes each request thread serves
    enhance_id,               \* enhance_image, modify_image: local request_id
    enhance_response,         \* what each request thread answered
    dpc,                      \* where each call of enhance_drawing_with_gemini is
    mpc,                      \* where each process_modification thread is
    tpc                       \* where each process_with_gemini thread is

webvars == <<storyboard_images, is_video_processing, video_processing_status,
             clock, hpc, request_id, http_response, wpc, video_path>>
jobvars == <<gpc, image_paths>>
musicvars == <<include_music, music_description, music_path, final_audio,
               temp_files>>
pipevars == <<gemini_key, image_descriptions, response, story_data, calls,
              audio_paths, durations, all_frames, output_dir, error, musicvars>>
\* State of the parts of the program that the video request does not touch.
enhvars == <<GEMINI_API_KEY, is_processing, processing_status, epc, endpoint,
             enhance_id, enhance_response, dpc, mpc, tpc>>
sidevars == <<selected, window, merged, accepted_board, enhvars>>
vars == <<webvars, jobvars, pipevars, sidevars>>

\* ------------------------------------------------------------- helpers
SeqsUpTo(S, n) == UNION {[1..k -> S] : k \in 0..n}

Range(s) == {s[i] : i \in 1..Len(s)}

RECURSIVE SumSeq(_)
SumSeq(s) == IF s = <<>> THEN 0 ELSE Head(s) + SumSeq(Tail(s))

NoDuplicates(s) == \A i, j \in 1..Len(s) : i # j => s[i] # s[j]

FirstIndex(s, x) == CHOOSE i \in 1..Len(s) : s[i] = x /\ \A j \in 1..(i-1) : s[j] # x

\* A removal of duplicates that keeps each path at its LAST occurrence.
RECURSIVE KeepLastLoop(_, _)
KeepLastLoop(paths, unique) ==
    IF paths = <<>> THEN unique
    ELSE IF Head(paths) \in Range(Tail(paths))
         THEN KeepLastLoop(Tail(paths), unique)
         ELSE KeepLastLoop(Tail(paths), Append(unique, Head(paths)))

DedupKeepLast(paths) == KeepLastLoop(paths, <<>>)

\* generate_video lines 600-606: the loop over image_paths with the set "seen".
RECURSIVE DedupLoop(_, _, _)
DedupLoop(paths, seen, unique) ==
    IF paths = <<>> THEN unique
    ELSE LET p == Head(paths) IN
         IF p \notin seen
         THEN DedupLoop(Tail(paths), seen \cup {p}, Append(unique, p))
         ELSE DedupLoop(Tail(paths), seen, unique)

\* lines 600-612: image_paths = unique_image_paths.
Dedup(paths) == DedupLoop(paths, {}, <<>>)

\* ------------------------------------------------------------- status records
Processing == [status |-> "processing", message |-> "Video generation started"]
Complete(path) == [status |-> "complete", result |-> path]
Error(msg) == [status |-> "error", message |-> msg]

NeedImages == "Need at least 2 images to generate a video"
FailedToGenerate == "Failed to generate video"

StatusOf(r) ==
    IF r \in DOMAIN video_processing_status
    THEN video_processing_status[r].status ELSE "absent"

SetStatus(r, rec) ==
    [x \in DOMAIN video_processing_status \cup {r} |->
        IF x = r THEN rec ELSE video_processing_status[x]]

\* check_video_status: what a poll of request id r answers in the current state.
CheckVideoStatus(r) ==
    IF r \notin DOMAIN video_processing_status
    THEN [code |-> 404, body |-> [error |-> "Request ID not found"]]
    ELSE [code |-> 200, body |-> video_processing_status[r]]

\* ------------------------------------------------------------- initial states
\* The local "response" of analyze_images: unbound, or the last response a
\* call returned (a narrative response by what its text is).
Unbound == [kind |-> "unbound"]
CaptionResponse == [kind |-> "caption"]

\* A local that is not assigned yet.
NotYet == [unassigned |-> TRUE]

PipeInitVars ==
    /\ image_descriptions = <<>>
    /\ response = Unbound
    /\ story_data = NotYet
    /\ calls = <<>>
    /\ audio_paths = <<>>
    /\ durations = <<>>
    /\ all_frames = <<>>
    /\ output_dir = {}
    /\ error = NoError
    /\ music_description = NotYet
    /\ music_path = None
    /\ final_audio = NotYet
    /\ temp_files = {}
    /\ selected = <<>>
    /\ window = NotYet
    /\ merged = NotYet
    /\ accepted_board = [h \in Handlers |-> <<>>]
    /\ is_processing = FALSE
    /\ processing_status = <<>>
    /\ epc = [c \in Handlers |-> "idle"]
    /\ endpoint = [c \in Handlers |-> "none"]
    /\ enhance_id = [c \in Handlers |-> <<>>]
    /\ enhance_response = [c \in Handlers |-> [code |-> 0]]
    /\ dpc = [c \in Handlers |-> "none"]
    /\ mpc = [c \in Handlers |-> "none"]
    /\ tpc = [c \in Handlers |-> "none"]

WebInitVars ==
    /\ is_video_processing = FALSE
    /\ video_processing_status = <<>>
    /\ clock = 1
    /\ hpc = [h \in Handlers |-> "idle"]
    /\ request_id = [h \in Handlers |-> 0]
    /\ http_response = [h \in Handlers |-> [code |-> 0]]
    /\ wpc = [r \in Workers |-> "none"]
    /\ video_path = [r \in Workers |-> None]
    /\ gpc = [r \in Workers |-> "idle"]
    /\ image_paths = [r \in Workers |-> <<>>]

Init ==
    /\ storyboard_images = <<>>
    /\ gemini_key = TRUE
    /\ include_music = FALSE
    /\ WebInitVars
    /\ PipeInitVars
    /\ GEMINI_API_KEY = TRUE

\* ------------------------------------------------------------- storyboard
\* add_to_storyboard: the path of an existing file is appended, duplicates included.
AddToStoryboard(p) ==
    /\ Len(storyboard_images) < MaxBoard
    /\ storyboard_images' = Append(storyboard_images, p)
    /\ UNCHANGED <<is_video_processing, video_processing_status, clock, hpc,
                   request_id, http_response, wpc, video_path, jobvars, pipevars>>
    /\ UNCHANGED sidevars

\* clear_storyboard: storyboard_images.clear().
ClearStoryboard ==
    /\ storyboard_images # <<>>
    /\ storyboard_images' = <<>>
    /\ UNCHANGED <<is_video_processing, video_processing_status, clock, hpc,
                   request_id, http_response, wpc, video_path, jobvars, pipevars>>
    /\ UNCHANGED sidevars

\* ------------------------------------------------------------- generate_video_api
Respond(h, r) ==
    /\ http_response' = [http_response EXCEPT ![h] = r]
    /\ hpc' = [hpc EXCEPT ![h] = "done"]

\* line 594: the storyboard length check.
HCheckImages(h) ==
    /\ hpc[h] = "idle"
    /\ IF Len(storyboard_images) < 2
       THEN Respond(h, [code |-> 400])
       ELSE /\ hpc' = [hpc EXCEPT ![h] = "check_busy"]
            /\ UNCHANGED http_response
    /\ UNCHANGED <<storyboard_images, is_video_processing, video_processing_status,
                   clock, request_id, wpc, video_path, jobvars, pipevars>>
    /\ UNCHANGED sidevars

\* line 600: the read of the busy flag.
HCheckBusy(h) ==
    /\ hpc[h] = "check_busy"
    /\ IF is_video_processing
       THEN Respond(h, [code |-> 429])
       ELSE /\ hpc' = [hpc EXCEPT ![h] = "set_flag"]
            /\ UNCHANGED http_response
    /\ UNCHANGED <<storyboard_images, is_video_processing, video_processing_status,
                   clock, request_id, wpc, video_path, jobvars, pipevars>>
    /\ UNCHANGED sidevars

\* The clock moves on by a tick of its resolution.
Tick ==
    /\ clock < MaxHandlers
    /\ clock' = clock + 1
    /\ UNCHANGED <<storyboard_images, is_video_processing, video_processing_status,
                   hpc, request_id, http_response, wpc, video_path, jobvars, pipevars>>
    /\ UNCHANGED sidevars

\* lines 607-610: the request id is made of the clock reading, then the flag
\* is set.
HSetFlag(h) ==
    /\ hpc[h] = "set_flag"
    /\ request_id' = [request_id EXCEPT ![h] = clock]
    /\ is_video_processing' = TRUE
    /\ hpc' = [hpc EXCEPT ![h] = "start_thread"]
    /\ accepted_board' = [accepted_board EXCEPT ![h] = storyboard_images]
    /\ UNCHANGED <<storyboard_images, video_processing_status, http_response, wpc,
                   clock, video_path, jobvars, pipevars>>
    /\ UNCHANGED <<selected, window, merged, enhvars>>

\* lines 611-618: the worker thread is started with the request id as its
\* argument, and the request id returned.
HStartThread(h) ==
    /\ hpc[h] = "start_thread"
    /\ wpc' = [wpc EXCEPT ![h] = "start"]
    /\ Respond(h, [code |-> 200, requestId |-> request_id[h]])
    /\ UNCHANGED <<storyboard_images, is_video_processing, video_processing_status,
                   clock, request_id, video_path, jobvars, pipevars>>
    /\ UNCHANGED sidevars

Handler(h) ==
    \/ HCheckImages(h)
    \/ HCheckBusy(h)
    \/ HSetFlag(h)
    \/ HStartThread(h)

\* ------------------------------------------------------------- generate_video_background
\* line 345: the status record of the request is created.
WStart(w) ==
    /\ wpc[w] = "start"
    /\ video_processing_status' = SetStatus(request_id[w], Processing)
    /\ wpc' = [wpc EXCEPT ![w] = "check"]
    /\ UNCHANGED <<storyboard_images, is_video_processing, clock, hpc, request_id,
                   http_response, video_path, jobvars, pipevars>>
    /\ UNCHANGED sidevars

\* lines 348-356: with fewer than two storyboard images the worker records the
\* error, clears the flag and returns (through "finally"); otherwise it calls
\* generate_video(storyboard_images).
WCheck(w) ==
    /\ wpc[w] = "check"
    /\ IF Len(storyboard_images) < 2
       THEN /\ video_processing_status' = SetStatus(request_id[w], Error(NeedImages))
            /\ is_video_processing' = FALSE
            /\ wpc' = [wpc EXCEPT ![w] = "finally"]
            /\ UNCHANGED gpc
       ELSE /\ wpc' = [wpc EXCEPT ![w] = "call"]
            /\ gpc' = [gpc EXCEPT ![w] = "collect"]
            /\ UNCHANGED <<video_processing_status, is_video_processing>>
    /\ UNCHANGED <<storyboard_images, clock, hpc, request_id, http_response, video_path,
                   image_paths, pipevars>>
    /\ UNCHANGED sidevars

\* lines 358-373: complete with the path, or error when generate_video returned None.
\* The frame of generate_video (its local image_paths) is gone by now.
WRecord(w) ==
    /\ wpc[w] = "call"
    /\ gpc[w] = "returned"
    /\ video_processing_status' =
           SetStatus(request_id[w],
                     IF video_path[w] # None
                        THEN Complete(video_path[w])
                        ELSE Error(FailedToGenerate))
    /\ wpc' = [wpc EXCEPT ![w] = "finally"]
    /\ image_paths' = [image_paths EXCEPT ![w] = <<>>]
    /\ UNCHANGED <<storyboard_images, is_video_processing, clock, hpc, request_id,
                   http_response, video_path, gpc, pipevars>>
    /\ UNCHANGED sidevars

\* A worker that clears the flag only after a job that completed.
WFinallyOnSuccess(w) ==
    /\ wpc[w] = "finally"
    /\ is_video_processing' =
           IF StatusOf(request_id[w]) = "complete" THEN FALSE ELSE is_video_processing
    /\ wpc' = [wpc EXCEPT ![w] = "done"]
    /\ video_path' = [video_path EXCEPT ![w] = None]
    /\ UNCHANGED <<storyboard_images, video_processing_status, clock, hpc, request_id,
                   http_response, jobvars, pipevars>>
    /\ UNCHANGED sidevars

\* lines 380-381: finally: is_video_processing = False; the thread ends.
WFinally(w) ==
    /\ wpc[w] = "finally"
    /\ is_video_processing' = FALSE
    /\ wpc' = [wpc EXCEPT ![w] = "done"]
    /\ video_path' = [video_path EXCEPT ![w] = None]
    /\ UNCHANGED <<storyboard_images, video_processing_status, clock, hpc, request_id,
                   http_response, jobvars, pipevars>>
    /\ UNCHANGED sidevars

\* ------------------------------------------------------------- generate_video
OutputPath(w) == <<"story_videos", w>>

\* What os.listdir(enhanced_dir) can hold when get_recent_images falls back to it.
DirListings == {<<>>, <<"B", "A">>}

\* lines 788-792: the handler of generate_video logs the exception, returns None.
Raise(w, e) ==
    /\ error' = e
    /\ video_path' = [video_path EXCEPT ![w] = None]
    /\ gpc' = [gpc EXCEPT ![w] = "returned"]

\* lines 593-616: get_recent_images (the list passed in, or the directory when
\* it is empty), the empty check, the removal of duplicates.
GVCollect(w) ==
    /\ wpc[w] = "call"
    /\ gpc[w] = "collect"
    /\ \E listing \in (IF storyboard_images # <<>>
                       THEN {storyboard_images} ELSE DirListings) :
          IF listing = <<>>
          THEN /\ Raise(w, "No images found!")
               /\ UNCHANGED image_paths
          ELSE /\ image_paths' = [image_paths EXCEPT ![w] = Dedup(listing)]
               /\ gpc' = [gpc EXCEPT ![w] = "analyze"]
               /\ UNCHANGED <<video_path, error>>
    /\ UNCHANGED <<musicvars, storyboard_images, is_video_processing, video_processing_status,
                   clock, hpc, request_id, http_response, wpc, gemini_key,
                   image_descriptions, response, story_data, calls, audio_paths,
                   durations, all_frames, output_dir>>
    /\ UNCHANGED sidevars

\* lines 618-792 as one call: the collaborators decide whether generate_video
\* returns the output path or None; PipeSpec follows the same lines stage by stage.
\* The call lasts longer than a tick of the clock.
GVRun(w) ==
    /\ wpc[w] = "call"
    /\ gpc[w] = "analyze"
    /\ \E result \in {OutputPath(w), None} :
          video_path' = [video_path EXCEPT ![w] = result]
    /\ gpc' = [gpc EXCEPT ![w] = "returned"]
    /\ clock' = clock + 1
    /\ UNCHANGED <<storyboard_images, is_video_processing, video_processing_status,
                   hpc, request_id, http_response, wpc, image_paths, pipevars>>
    /\ UNCHANGED sidevars

Worker(w) ==
    \/ WStart(w)
    \/ WCheck(w)
    \/ WRecord(w)
    \/ WFinally(w)

\* ------------------------------------------------------------- narrative text
\* The text the narrative model returns, as a sequence of tokens: braces, code
\* fence markers, whitespace, other text, and the member list of a JSON object
\* ("members": title, story and n scene narrations; the other kinds lack a key).
Tok(t) == [t |-> t, n |-> 0]
LBrace == Tok("{")
RBrace == Tok("}")
Fence == Tok("fence")            \* three backticks
FenceJson == Tok("fence json")   \* three backticks followed by json
Ws == Tok(" ")
Junk == Tok("text")
MemberKinds == {"members", "members_no_title", "members_no_story",
                "members_no_narrations"}
MemberToks ==
    {[t |-> "members", n |-> n] : n \in 0..MaxNarr}
        \cup {[t |-> k, n |-> MaxNarr] : k \in MemberKinds \ {"members"}}

Max(a, b) == IF a > b THEN a ELSE b
Min(a, b) == IF a < b THEN a ELSE b

\* str.find and str.rfind: the 0-based index of the first / last occurrence, or -1.
Find(s, t) ==
    IF \E i \in 1..Len(s) : s[i] = t
    THEN (CHOOSE i \in 1..Len(s) : s[i] = t /\ \A j \in 1..(i-1) : s[j] # t) - 1
    ELSE -1

RFind(s, t) ==
    IF \E i \in 1..Len(s) : s[i] = t
    THEN (CHOOSE i \in 1..Len(s) : s[i] = t /\ \A j \in (i+1)..Len(s) : s[j] # t) - 1
    ELSE -1

\* s[a:b] with Python's treatment of negative and out-of-range indices.
PySlice(s, a, b) ==
    LET n == Len(s)
        lo == IF a < 0 THEN Max(a + n, 0) ELSE Min(a, n)
        hi == IF b < 0 THEN Max(b + n, 0) ELSE Min(b, n)
    IN  IF lo >= hi THEN <<>> ELSE SubSeq(s, lo + 1, hi)

\* str.split(sep): the parts between the occurrences of sep.
RECURSIVE Split(_, _)
Split(s, sep) ==
    LET i == Find(s, sep)
    IN  IF i = -1 THEN <<s>>
        ELSE <<SubSeq(s, 1, i)>> \o Split(SubSeq(s, i + 2, Len(s)), sep)

\* str.strip(): leading and trailing whitespace removed.
RECURSIVE Strip(_)
Strip(s) ==
    IF s = <<>> THEN s
    ELSE IF Head(s) = Ws THEN Strip(Tail(s))
    ELSE IF s[Len(s)] = Ws THEN Strip(SubSeq(s, 1, Len(s) - 1))
    ELSE s

\* analyze_images lines 339-348: strip, take the inside of a code fence, then
\* slice from the first "{" to the last "}".  (The part that the split at the
\* plain fence is applied to never holds a json fence: either the text has none,
\* or it was cut at it.)
CleanResponse(text) ==
    LET t0 == Strip(text)
        t1 == IF Find(t0, FenceJson) # -1
              THEN Strip(Split(Split(t0, FenceJson)[2], Fence)[1])
              ELSE IF Find(t0, Fence) # -1
              THEN Strip(Split(Split(t0, Fence)[2], Fence)[1])
              ELSE t0
    IN  PySlice(t1, Find(t1, LBrace), RFind(t1, RBrace) + 1)

GeneratedNarrations(n) == [i \in 1..n |-> "generated narration"]

\* The dict a member list denotes.
DocOf(m) ==
    CASE m.t = "members" ->
           [title |-> "generated title", story |-> "generated introduction",
            scene_narrations |-> GeneratedNarrations(m.n)]
      [] m.t = "members_no_title" ->
           [story |-> "generated introduction",
            scene_narrations |-> GeneratedNarrations(m.n)]
      [] m.t = "members_no_story" ->
           [title |-> "generated title",
            scene_narrations |-> GeneratedNarrations(m.n)]
      [] m.t = "members_no_narrations" ->
           [title |-> "generated title", story |-> "generated introduction"]

\* json.loads: whitespace between tokens is insignificant; the text is an
\* object when it is a member list (or nothing) between one pair of braces.
JsonLoads(text) ==
    LET t == SelectSeq(text, LAMBDA x : x # Ws)
    IN  IF Len(t) = 3 /\ t[1] = LBrace /\ t[2] \in MemberToks /\ t[3] = RBrace
        THEN [ok |-> TRUE, value |-> DocOf(t[2])]
        ELSE IF t = <<LBrace, RBrace>>
        THEN [ok |-> TRUE, value |-> <<>>]
        ELSE [ok |-> FALSE, value |-> <<>>]

\* The responses of the narrative model that are drawn: a JSON object alone,
\* fenced, or with commentary or a stray brace around it, and every short text
\* of braces, fences and other text.
Wrappings(c) ==
    { c,
      <<Ws>> \o c \o <<Ws>>,
      <<Junk>> \o c \o <<Junk>>,
      <<FenceJson, Ws>> \o c \o <<Ws, Fence>>,
      <<Junk, FenceJson>> \o c \o <<Fence, Junk>>,
      <<Fence>> \o c \o <<Fence>>,
      <<FenceJson>> \o c,
      <<Fence>> \o c \o <<Fence, Junk, FenceJson>>,
      c \o <<RBrace>>,
      <<LBrace>> \o c }

NarrativeTexts ==
    UNION {Wrappings(<<LBrace, m, RBrace>>) : m \in MemberToks}
        \cup SeqsUpTo({LBrace, RBrace, Junk, Fence, FenceJson}, MaxTextLen)

\* ------------------------------------------------------------- analyze_images
Fps == 30

Description(path) == <<"description of", path>>
Placeholder == <<"A mysterious scene unfolds.">>

Call(to, arg) == [to |-> to, arg |-> arg]

\* lines 359-363: the document returned when the story could not be generated.
FallbackStory(n) ==
    [title |-> "A Story of Imagination",
     story |-> "A tale unfolds through these magical scenes.",
     scene_narrations |-> [i \in 1..n |-> "A magical scene unfolds."]]

\* lines 264-265: analyze_images refuses to run without the API key.
AnalyzeEnter(w) ==
    /\ wpc[w] = "call"
    /\ gpc[w] = "analyze"
    /\ IF gemini_key
       THEN /\ gpc' = [gpc EXCEPT ![w] = "caption"]
            /\ UNCHANGED <<video_path, error>>
       ELSE Raise(w, "GEMINI_API_KEY not set in environment variables")
    /\ UNCHANGED <<musicvars, storyboard_images, is_video_processing, video_processing_status,
                   clock, hpc, request_id, http_response, wpc, image_paths, gemini_key,
                   image_descriptions, response, story_data, calls, audio_paths,
                   durations, all_frames, output_dir>>
    /\ UNCHANGED sidevars

\* One pass of the captioning loop: Image.open raises before the call is made,
\* or the call is made and returns text, raises, or returns a response without
\* text (response.text.strip() then raises).
CaptionOutcomes == {"ok", "open_raises", "call_raises", "no_text"}

\* lines 271-296: one pass of the loop over image_paths.
CaptionImage(w) ==
    /\ wpc[w] = "call"
    /\ gpc[w] = "caption"
    /\ LET i == Len(image_descriptions)
       IN  /\ i < Len(image_paths[w])
           /\ \E out \in CaptionOutcomes :
                 /\ calls' = IF out = "open_raises" THEN calls
                              ELSE Append(calls, Call("caption", i))
                 /\ response' = IF out \in {"open_raises", "call_raises"}
                                 THEN response ELSE CaptionResponse
                 /\ image_descriptions' =
                        Append(image_descriptions,
                               IF out = "ok" THEN Description(image_paths[w][i + 1])
                                             ELSE Placeholder)
    /\ UNCHANGED <<webvars, jobvars, gemini_key, story_data, audio_paths, durations,
                   all_frames, output_dir, error, musicvars>>
    /\ UNCHANGED sidevars

\* What the narrative call does: it raises, or returns a response whose text is
\* missing, or returns text.
NarrativeOutcomes ==
    {[kind |-> "call_raises"], [kind |-> "no_text"]}
        \cup {[kind |-> "text", text |-> t] : t \in NarrativeTexts}

\* lines 298-336: the narrative call, once every image is described.
NarrativeCall(w) ==
    /\ wpc[w] = "call"
    /\ gpc[w] = "caption"
    /\ Len(image_descriptions) = Len(image_paths[w])
    /\ calls' = Append(calls, Call("narrative", 0))
    /\ \E out \in NarrativeOutcomes :
          IF out.kind = "call_raises"
          THEN /\ gpc' = [gpc EXCEPT ![w] = "story_except"]
               /\ UNCHANGED response
          ELSE /\ gpc' = [gpc EXCEPT ![w] = "story_parse"]
               /\ response' = out
    /\ UNCHANGED <<musicvars, webvars, image_paths, gemini_key, image_descriptions, story_data,
                   audio_paths, durations, all_frames, output_dir, error>>
    /\ UNCHANGED sidevars

\* A handler that lets the failure leave analyze_images.
StoryHandlerReraises(resp, n) == [raised |-> TRUE, value |-> NotYet]

\* lines 356-363: the handler of analyze_images logs response.text and returns
\* the fallback document; when no call of this invocation has bound "response"
\* the read raises UnboundLocalError, which leaves analyze_images.
StoryHandler(resp, n) ==
    IF resp = Unbound
    THEN [raised |-> TRUE, value |-> NotYet]
    ELSE [raised |-> FALSE, value |-> FallbackStory(n)]

\* lines 339-353 applied to each text the narrative call can return: the text
\* is cleaned, then parsed.
ParsedTexts == {[text |-> t, parsed |-> JsonLoads(CleanResponse(t))] : t \in NarrativeTexts}

ParsedText(text) == (CHOOSE p \in ParsedTexts : p.text = text).parsed

\* lines 338-355: the text is cleaned and parsed; a failure of either (a missing
\* text, a text json.loads rejects) goes to the handler.
ParseResponse(resp, n) ==
    IF resp.kind = "text" /\ ParsedText(resp.text).ok
    THEN [raised |-> FALSE, value |-> ParsedText(resp.text).value]
    ELSE StoryHandler(resp, n)

\* analyze_images returns r.value to line 619 or raises into generate_video;
\* either way its locals are gone.
LeaveAnalyze(w, r) ==
    /\ IF r.raised
       THEN /\ Raise(w, "UnboundLocalError")
            /\ UNCHANGED story_data
       ELSE /\ story_data' = r.value
            /\ gpc' = [gpc EXCEPT ![w] = "tts"]
            /\ UNCHANGED <<video_path, error>>
    /\ image_descriptions' = <<>>
    /\ response' = Unbound

\* lines 338-355 after the narrative call returned.
ParseStory(w) ==
    /\ wpc[w] = "call"
    /\ gpc[w] = "story_parse"
    /\ LeaveAnalyze(w, ParseResponse(response, Len(image_descriptions)))
    /\ UNCHANGED <<musicvars, storyboard_images, is_video_processing, video_processing_status,
                   clock, hpc, request_id, http_response, wpc, image_paths, gemini_key,
                   calls, audio_paths, durations, all_frames, output_dir>>
    /\ UNCHANGED sidevars

\* lines 356-363 after the narrative call raised.
StoryExcept(w) ==
    /\ wpc[w] = "call"
    /\ gpc[w] = "story_except"
    /\ LeaveAnalyze(w, StoryHandler(response, Len(image_descriptions)))
    /\ UNCHANGED <<musicvars, storyboard_images, is_video_processing, video_processing_status,
                   clock, hpc, request_id, http_response, wpc, image_paths, gemini_key,
                   calls, audio_paths, durations, all_frames, output_dir>>
    /\ UNCHANGED sidevars

\* ------------------------------------------------------------- narration audio
TtsError == "Failed to create audio - ElevenLabs API quota may be exceeded. Please check your API key and account credits."

\* The key of story_data that narration unit u reads (0 title, 1 introduction,
\* 2.. the scenes).
UnitKey(u) == IF u = 0 THEN "title" ELSE IF u = 1 THEN "story" ELSE "scene_narrations"

\* The file create_audio writes for narration unit u (title_, intro_, scene_i_).
UnitFile(u) == <<"temp_processing", "unit", u>>

\* A narration loop that records the failure of a unit and goes on with the
\* next one.
SynthesizeKeepsGoing(w) ==
    /\ wpc[w] = "call"
    /\ gpc[w] = "tts"
    /\ LET u == Len(audio_paths)
       IN  IF UnitKey(u) \notin DOMAIN story_data
           THEN /\ Raise(w, "KeyError")
                /\ UNCHANGED <<calls, audio_paths, temp_files>>
           ELSE /\ u >= 2 => u - 2 < Len(story_data.scene_narrations)
                /\ calls' = Append(calls, Call("tts", u))
                /\ \E ok \in BOOLEAN :
                      /\ audio_paths' = Append(audio_paths, UnitFile(u))
                      /\ temp_files' = temp_files \cup {UnitFile(u)}
                      /\ error' = IF ok THEN error ELSE TtsError
                      /\ UNCHANGED <<gpc, video_path>>
    /\ UNCHANGED <<storyboard_images, is_video_processing, video_processing_status,
                   clock, hpc, request_id, http_response, wpc, image_paths, gemini_key,
                   image_descriptions, response, story_data, durations,
                   all_frames, output_dir, include_music, music_description,
                   music_path, final_audio>>
    /\ UNCHANGED sidevars

\* lines 628-648 and create_audio: the next narration unit is synthesized and
\* its file written.  A missing key raises KeyError; create_audio returning
\* False raises ValueError.
Synthesize(w) ==
    /\ wpc[w] = "call"
    /\ gpc[w] = "tts"
    /\ LET u == Len(audio_paths)
       IN  IF UnitKey(u) \notin DOMAIN story_data
           THEN /\ Raise(w, "KeyError")
                /\ UNCHANGED <<calls, audio_paths, temp_files>>
           ELSE /\ u >= 2 => u - 2 < Len(story_data.scene_narrations)
                /\ calls' = Append(calls, Call("tts", u))
                /\ \E ok \in BOOLEAN :
                      IF ok
                      THEN /\ audio_paths' = Append(audio_paths, UnitFile(u))
                           /\ temp_files' = temp_files \cup {UnitFile(u)}
                           /\ UNCHANGED <<gpc, video_path, error>>
                      ELSE /\ Raise(w, TtsError)
                           /\ UNCHANGED <<audio_paths, temp_files>>
    /\ UNCHANGED <<storyboard_images, is_video_processing, video_processing_status,
                   clock, hpc, request_id, http_response, wpc, image_paths, gemini_key,
                   image_descriptions, response, story_data, durations,
                   all_frames, output_dir, include_music, music_description,
                   music_path, final_audio>>
    /\ UNCHANGED sidevars

\* The durations AudioFileClip reports for n clips: all the same, two of them
\* in turn, or the last clip shorter than a frame.
ClipDurations(n) ==
    {[i \in 1..n |-> d] : d \in DurChoices}
        \cup {[i \in 1..n |-> IF i % 2 = 1 THEN 10 ELSE 16]}
        \cup {[i \in 1..n |-> IF i = n THEN 2 ELSE 10]}

\* lines 650-662: every clip is loaded and its duration read, once the loop over
\* scene_narrations has ended; music generation follows when include_music is
\* set, the frames otherwise.
LoadDurations(w) ==
    /\ wpc[w] = "call"
    /\ gpc[w] = "tts"
    /\ Len(audio_paths) >= 2
    /\ "scene_narrations" \in DOMAIN story_data
    /\ Len(audio_paths) - 2 = Len(story_data.scene_narrations)
    /\ durations' \in ClipDurations(Len(audio_paths))
    /\ gpc' = [gpc EXCEPT ![w] = IF include_music THEN "mood" ELSE "title"]
    /\ UNCHANGED <<webvars, image_paths, gemini_key, image_descriptions,
                   response, story_data, calls, audio_paths, all_frames,
                   output_dir, error, musicvars>>
    /\ UNCHANGED sidevars

\* ------------------------------------------------------------- background music
GeneratedDescription == "description by the model"
DefaultDescription == "upbeat and cheerful background music"

\* The file MusicGenerator writes (gen_music/background_music_<timestamp>.mp3).
MusicFile == <<"gen_music", "background_music">>

\* A call of the text model for the mood, with what came of it.
MoodCall(result) == [to |-> "mood", arg |-> 0, result |-> result]

\* What self.client.models.generate_content and response.text.strip() do.
MoodOutcomes == {"text", "raises"}

\* A mood derivation whose exception reaches generate_background_music: the
\* handler there returns None and no music is generated.
MusicDescriptionRaises(w) ==
    /\ wpc[w] = "call"
    /\ gpc[w] = "mood"
    /\ IF ~gemini_key
       THEN /\ music_description' = DefaultDescription
            /\ gpc' = [gpc EXCEPT ![w] = "music"]
            /\ UNCHANGED calls
       ELSE \E out \in MoodOutcomes :
               /\ calls' = Append(calls, MoodCall(out))
               /\ IF out = "text"
                  THEN /\ music_description' = GeneratedDescription
                       /\ gpc' = [gpc EXCEPT ![w] = "music"]
                  ELSE /\ music_description' = NotYet
                       /\ gpc' = [gpc EXCEPT ![w] = "title"]
    /\ UNCHANGED <<webvars, image_paths, gemini_key, image_descriptions,
                   response, story_data, audio_paths, durations, all_frames,
                   output_dir, error, include_music, music_path, final_audio,
                   temp_files>>
    /\ UNCHANGED sidevars

\* generate_music_description (lines 466-503), called at line 511: without the
\* API key the default description is returned and no call is made; otherwise
\* the text model is called once, and the default is returned when the call or
\* the reading of its text raises.
MusicDescription(w) ==
    /\ wpc[w] = "call"
    /\ gpc[w] = "mood"
    /\ IF ~gemini_key
       THEN /\ music_description' = DefaultDescription
            /\ UNCHANGED calls
       ELSE \E out \in MoodOutcomes :
               /\ calls' = Append(calls, MoodCall(out))
               /\ music_description' = IF out = "text" THEN GeneratedDescription
                                                      ELSE DefaultDescription
    /\ gpc' = [gpc EXCEPT ![w] = "music"]
    /\ UNCHANGED <<webvars, image_paths, gemini_key, image_descriptions,
                   response, story_data, audio_paths, durations, all_frames,
                   output_dir, error, include_music, music_path, final_audio,
                   temp_files>>
    /\ UNCHANGED sidevars

\* MusicGenerator.generate returns True with the file written, returns False,
\* or raises.
MusicOutcomes == {"ok", "fails", "raises"}

\* What line 666 assigns to music_path: generate_background_music returns the
\* path on success and None otherwise (lines 529-538); an exception of the
\* event loop is caught at line 676 and leaves music_path None.
MusicResult(out) == IF out = "ok" THEN MusicFile ELSE None

\* A music stage whose failure ends generate_video.
GenerateMusicOrFail(w) ==
    /\ wpc[w] = "call"
    /\ gpc[w] = "music"
    /\ calls' = Append(calls, Call("music", [prompt |-> music_description, duration |-> SumSeq(durations)]))
    /\ \E out \in MusicOutcomes :
          /\ music_path' = MusicResult(out)
          /\ temp_files' = IF out = "ok" THEN temp_files \cup {MusicFile}
                                         ELSE temp_files
          /\ IF out = "ok"
             THEN /\ gpc' = [gpc EXCEPT ![w] = "title"]
                  /\ UNCHANGED <<video_path, error>>
             ELSE Raise(w, "music generation failed")
    /\ music_description' = NotYet
    /\ UNCHANGED <<storyboard_images, is_video_processing, video_processing_status,
                   clock, hpc, request_id, http_response, wpc, image_paths, gemini_key,
                   image_descriptions, response, story_data, audio_paths, durations,
                   all_frames, output_dir, include_music, final_audio>>
    /\ UNCHANGED sidevars

\* A music stage after which the audio is assembled at once, without frames.
GenerateMusicSkipsFrames(w) ==
    /\ wpc[w] = "call"
    /\ gpc[w] = "music"
    /\ calls' = Append(calls, Call("music", [prompt |-> music_description, duration |-> SumSeq(durations)]))
    /\ \E out \in MusicOutcomes :
          /\ music_path' = MusicResult(out)
          /\ temp_files' = IF out = "ok" THEN temp_files \cup {MusicFile}
                                         ELSE temp_files
    /\ music_description' = NotYet
    /\ gpc' = [gpc EXCEPT ![w] = "mix"]
    /\ UNCHANGED <<webvars, image_paths, gemini_key, image_descriptions,
                   response, story_data, audio_paths, durations, all_frames,
                   output_dir, error, include_music, final_audio>>
    /\ UNCHANGED sidevars

\* lines 513-538 and 663-678: the music generator is run for the total duration
\* of the narration.
GenerateMusic(w) ==
    /\ wpc[w] = "call"
    /\ gpc[w] = "music"
    /\ calls' = Append(calls, Call("music", [prompt |-> music_description, duration |-> SumSeq(durations)]))
    /\ \E out \in MusicOutcomes :
          /\ music_path' = MusicResult(out)
          /\ temp_files' = IF out = "ok" THEN temp_files \cup {MusicFile}
                                         ELSE temp_files
    /\ music_description' = NotYet
    /\ gpc' = [gpc EXCEPT ![w] = "title"]
    /\ UNCHANGED <<webvars, image_paths, gemini_key, image_descriptions,
                   response, story_data, audio_paths, durations, all_frames,
                   output_dir, error, include_music, final_audio>>
    /\ UNCHANGED sidevars

\* ------------------------------------------------------------- frames
TransitionDuration == 1

\* round(num / den) for num >= 0 and den > 0, halves going to the even number.
RoundHalfEven(num, den) ==
    LET q == num \div den
        r == num % den
    IN  IF 2 * r > den \/ (2 * r = den /\ q % 2 = 1) THEN q + 1 ELSE q

\* A frame count that rounds to the nearest frame.
FrameCountRounded(duration) == RoundHalfEven(duration * Fps, DurUnit)

\* create_scene_clip line 412: range(int(duration * self.fps)), the duration in
\* hundredths of a second.
FrameCount(duration) == (duration * Fps) \div DurUnit

\* A progress that counts the frames from one.
ProgressFromOne(i, duration) == [num |-> (i + 1) * DurUnit, den |-> duration * Fps]

\* create_scene_clip line 413: progress = i / (duration * self.fps), as the
\* fraction num / den.
Progress(i, duration) == [num |-> i * DurUnit, den |-> duration * Fps]

\* A run of frames appended to all_frames: what it shows, from which image,
\* for which duration, and how many frames.
Block(kind, image, duration, frames) ==
    [kind |-> kind, image |-> image, duration |-> duration, frames |-> frames]

TotalFrames(blocks) == SumSeq([i \in 1..Len(blocks) |-> blocks[i].frames])

ScenesRendered == Cardinality({i \in 1..Len(all_frames) : all_frames[i].kind = "scene"})

\* lines 685-698: the title block, rendered from the first image.
RenderTitle(w) ==
    /\ wpc[w] = "call"
    /\ gpc[w] = "title"
    /\ all_frames' = Append(all_frames,
                            Block("title", image_paths[w][1], durations[1],
                                  FrameCount(durations[1])))
    /\ gpc' = [gpc EXCEPT ![w] = "intro"]
    /\ UNCHANGED <<musicvars, webvars, image_paths, gemini_key, image_descriptions,
                   response, story_data, calls, audio_paths, durations,
                   output_dir, error>>
    /\ UNCHANGED sidevars

\* lines 700-703: the introduction block, rendered from the first image.
RenderIntro(w) ==
    /\ wpc[w] = "call"
    /\ gpc[w] = "intro"
    /\ all_frames' = Append(all_frames,
                            Block("intro", image_paths[w][1], durations[2],
                                  FrameCount(durations[2])))
    /\ gpc' = [gpc EXCEPT ![w] = "scenes"]
    /\ UNCHANGED <<musicvars, webvars, image_paths, gemini_key, image_descriptions,
                   response, story_data, calls, audio_paths, durations,
                   output_dir, error>>
    /\ UNCHANGED sidevars

\* A pass of the loop that appends the scene first and the transition after it.
RenderSceneThenTransition(w) ==
    /\ wpc[w] = "call"
    /\ gpc[w] = "scenes"
    /\ LET i == ScenesRendered
           n == Len(image_paths[w])
       IN  /\ i < n
           /\ IF i + 2 >= Len(durations)
              THEN /\ Raise(w, "IndexError")
                   /\ UNCHANGED all_frames
              ELSE LET frames == FrameCount(durations[i + 3])
                   IN  IF frames = 0 \/ TotalFrames(all_frames) = 0
                       THEN /\ Raise(w, "IndexError")
                            /\ UNCHANGED all_frames
                       ELSE /\ all_frames' = all_frames \o
                                  << Block("scene", image_paths[w][i + 1],
                                           durations[i + 3], frames),
                                     Block("transition", image_paths[w][i + 1],
                                           TransitionDuration * DurUnit,
                                           FrameCount(TransitionDuration * DurUnit)) >>
                            /\ gpc' = [gpc EXCEPT ![w] =
                                          IF i + 1 = n THEN "mix" ELSE "scenes"]
                            /\ UNCHANGED <<video_path, error>>
    /\ UNCHANGED <<musicvars, storyboard_images, is_video_processing,
                   video_processing_status, clock, hpc, request_id, http_response,
                   wpc, image_paths, gemini_key, image_descriptions, response,
                   story_data, calls, audio_paths, durations, output_dir>>
    /\ UNCHANGED sidevars

\* A pass of the loop whose transition lasts as long as the clip of the scene.
RenderSceneLongTransition(w) ==
    /\ wpc[w] = "call"
    /\ gpc[w] = "scenes"
    /\ LET i == ScenesRendered
           n == Len(image_paths[w])
       IN  /\ i < n
           /\ IF i + 2 >= Len(durations)
              THEN /\ Raise(w, "IndexError")
                   /\ UNCHANGED all_frames
              ELSE LET frames == FrameCount(durations[i + 3])
                   IN  IF frames = 0 \/ TotalFrames(all_frames) = 0
                       THEN /\ Raise(w, "IndexError")
                            /\ UNCHANGED all_frames
                       ELSE /\ all_frames' = all_frames \o
                                  << Block("transition", image_paths[w][i + 1],
                                           durations[i + 3], frames),
                                     Block("scene", image_paths[w][i + 1],
                                           durations[i + 3], frames) >>
                            /\ gpc' = [gpc EXCEPT ![w] =
                                          IF i + 1 = n THEN "mix" ELSE "scenes"]
                            /\ UNCHANGED <<video_path, error>>
    /\ UNCHANGED <<musicvars, storyboard_images, is_video_processing,
                   video_processing_status, clock, hpc, request_id, http_response,
                   wpc, image_paths, gemini_key, image_descriptions, response,
                   story_data, calls, audio_paths, durations, output_dir>>
    /\ UNCHANGED sidevars

\* lines 706-725: one pass of the loop over image_paths: scene i is rendered
\* for durations[i + 2], then the transition into it and the scene are appended.
\* durations[i + 2], all_frames[-1] and scene_frames[0] raise IndexError when
\* the list is too short.  After the last pass the audio is assembled.
RenderScene(w) ==
    /\ wpc[w] = "call"
    /\ gpc[w] = "scenes"
    /\ LET i == ScenesRendered
           n == Len(image_paths[w])
       IN  /\ i < n
           /\ IF i + 2 >= Len(durations)
              THEN /\ Raise(w, "IndexError")
                   /\ UNCHANGED all_frames
              ELSE LET frames == FrameCount(durations[i + 3])
                   IN  IF frames = 0 \/ TotalFrames(all_frames) = 0
                       THEN /\ Raise(w, "IndexError")
                            /\ UNCHANGED all_frames
                       ELSE /\ all_frames' = all_frames \o
                                  << Block("transition", image_paths[w][i + 1],
                                           TransitionDuration * DurUnit,
                                           FrameCount(TransitionDuration * DurUnit)),
                                     Block("scene", image_paths[w][i + 1],
                                           durations[i + 3], frames) >>
                            /\ gpc' = [gpc EXCEPT ![w] =
                                          IF i + 1 = n THEN "mix" ELSE "scenes"]
                            /\ UNCHANGED <<video_path, error>>
    /\ UNCHANGED <<musicvars, storyboard_images, is_video_processing,
                   video_processing_status, clock, hpc, request_id, http_response,
                   wpc, image_paths, gemini_key, image_descriptions, response,
                   story_data, calls, audio_paths, durations, output_dir>>
    /\ UNCHANGED sidevars

\* ------------------------------------------------------------- audio track
TempNarration == <<"temp_processing", "temp_narration">>
CombinedAudio == <<"temp_processing", "combined_audio">>

\* line 732: concatenate_audioclips(audio_clips), the narration clips in unit
\* order.
NarrationTrack(paths) == [content |-> "narration", source |-> paths]

\* line 753: AudioFileClip(merged_path), the track read back from a file.
TrackOfFile(path) ==
    [content |-> IF path = CombinedAudio THEN "narration and music" ELSE "narration",
     source |-> path]

\* What the steps of lines 738-753 do when music was generated: all of them
\* succeed; final_audio.write_audiofile of the temporary narration raises; a
\* step inside merge_audio_with_music raises; AudioFileClip(merged_path) raises.
MixOutcomes == {"ok", "write_narration_raises", "merge_raises", "load_raises"}

\* merge_audio_with_music lines 542-584: the output path, or the narration path
\* from its handler.
MergeAudioWithMusic(out) == IF out = "ok" THEN CombinedAudio ELSE TempNarration

\* lines 729-764: the narration clips are concatenated; when a music file
\* exists the narration is written to a temporary file, merged with the music
\* and the merged file loaded as final_audio.  (merge_audio_with_music returns
\* the narration path on failure, a file that exists: the branch of lines
\* 756-761 is not taken.)
MixAudio(w) ==
    /\ wpc[w] = "call"
    /\ gpc[w] = "mix"
    /\ IF music_path # None /\ music_path \in temp_files
       THEN \E out \in MixOutcomes :
               IF out = "write_narration_raises"
               THEN /\ Raise(w, "write_audiofile failed")
                    /\ final_audio' = NarrationTrack(audio_paths)
                    /\ UNCHANGED temp_files
               ELSE /\ temp_files' = temp_files \cup {TempNarration}
                                         \cup (IF out \in {"ok", "load_raises"}
                                               THEN {CombinedAudio} ELSE {})
                    /\ IF out = "load_raises"
                       THEN /\ Raise(w, "AudioFileClip failed")
                            /\ final_audio' = NarrationTrack(audio_paths)
                       ELSE /\ final_audio' = TrackOfFile(MergeAudioWithMusic(out))
                            /\ gpc' = [gpc EXCEPT ![w] = "encode"]
                            /\ UNCHANGED <<video_path, error>>
       ELSE /\ final_audio' = NarrationTrack(audio_paths)
            /\ gpc' = [gpc EXCEPT ![w] = "encode"]
            /\ UNCHANGED <<video_path, error, temp_files>>
    /\ UNCHANGED <<storyboard_images, is_video_processing, video_processing_status,
                   clock, hpc, request_id, http_response, wpc, image_paths, gemini_key,
                   image_descriptions, response, story_data, calls, audio_paths,
                   durations, all_frames, output_dir, include_music,
                   music_description, music_path>>
    /\ UNCHANGED sidevars

\* ------------------------------------------------------------- encoding
\* write_videofile writes the file, or raises before or after it created it.
EncodeOutcomes == {"ok", "raises", "raises_midway"}

\* lines 764-786: the audio is attached and the file written to the output
\* directory; the clips are closed and the path returned.
EncodeVideo(w) ==
    /\ wpc[w] = "call"
    /\ gpc[w] = "encode"
    /\ \E out \in EncodeOutcomes :
          /\ output_dir' = IF out = "raises" THEN output_dir
                           ELSE output_dir \cup {OutputPath(w)}
          /\ IF out = "ok"
             THEN /\ video_path' = [video_path EXCEPT ![w] = OutputPath(w)]
                  /\ gpc' = [gpc EXCEPT ![w] = "returned"]
                  /\ UNCHANGED error
             ELSE Raise(w, "write_videofile failed")
    /\ UNCHANGED <<storyboard_images, is_video_processing, video_processing_status,
                   clock, hpc, request_id, http_response, wpc, image_paths, gemini_key,
                   image_descriptions, response, story_data, calls, audio_paths,
                   durations, all_frames, musicvars>>
    /\ UNCHANGED sidevars

\* The stages of generate_video a call with include_music=False goes through.
GenerateVideo(w) ==
    \/ GVCollect(w)
    \/ AnalyzeEnter(w)
    \/ CaptionImage(w)
    \/ NarrativeCall(w)
    \/ ParseStory(w)
    \/ StoryExcept(w)
    \/ Synthesize(w)
    \/ LoadDurations(w)
    \/ RenderTitle(w)
    \/ RenderIntro(w)
    \/ RenderScene(w)
    \/ MixAudio(w)
    \/ EncodeVideo(w)

\* The stages that run in addition with include_music=True.
BackgroundMusic(w) ==
    \/ MusicDescription(w)
    \/ GenerateMusic(w)

\* ------------------------------------------------------------- effect selection
MaxSelections == 3
SceneIndexes == 2..3

\* lines 451-461: the list random.choice draws from (stretch_effect is listed
\* three times).
EffectCatalogue ==
    << "dramatic_zoom_punch", "dramatic_zoom_dolly", "spiral_pan_clockwise",
       "spiral_pan_counterclockwise", "stretch_effect", "stretch_effect",
       "stretch_effect", "focus_pull", "cool_pan" >>

\* get_random_effect_combination (lines 449-464): what random.choice(effects)
\* can return for a scene index; the generator is not seeded and the index is
\* not used.
GetRandomEffectCombination(scene_index) ==
    {EffectCatalogue[k] : k \in 1..Len(EffectCatalogue)}

\* create_scene_clip lines 415-431: the function that renders an effect type;
\* the else branch copies the image.
EffectHandler(effect_type) ==
    CASE effect_type \in {"dramatic_zoom_punch", "dramatic_zoom_dolly"} -> "apply_dramatic_zoom"
      [] effect_type \in {"spiral_pan_clockwise", "spiral_pan_counterclockwise"} -> "apply_spiral_pan"
      [] effect_type = "stretch_effect" -> "apply_stretch_effect"
      [] effect_type = "focus_pull" -> "apply_focus_pull"
      [] effect_type = "cool_pan" -> "apply_cool_pan"
      [] OTHER -> "img.copy"

\* create_scene_clip lines 405-408 called with effect_type 'auto': the effect
\* of the scene is selected, and rendered by its branch.
SelectEffect(scene_index) ==
    /\ Len(selected) < MaxSelections
    /\ \E effect_type \in GetRandomEffectCombination(scene_index) :
          selected' = Append(selected, [scene_index |-> scene_index,
                                        effect |-> effect_type,
                                        rendered_by |-> EffectHandler(effect_type)])
    /\ UNCHANGED <<webvars, jobvars, pipevars, window, merged, accepted_board, enhvars>>

EffectNext == \E scene_index \in SceneIndexes : SelectEffect(scene_index)

EffectSpec == Init /\ [][EffectNext]_vars

\* ------------------------------------------------------------- effect geometry
\* A progress is the fraction num / den; create_scene_clip passes i / (duration
\* * fps) for the frames i of a clip of ProgressDen frames.
ProgressDen == 16
Progresses == {[num |-> n, den |-> ProgressDen] : n \in 0..(ProgressDen - 1)}

\* line 219: self.resolution, the size create_scene_clip resizes every image to.
FrameW == 1280
FrameH == 720

\* int(x) for the fraction num / den, den > 0: truncation toward zero.
PyInt(num, den) == IF num >= 0 THEN num \div den ELSE -((-num) \div den)

\* cos and sin, in thousandths, of the sixteen angles k * pi / 8; an angle is
\* taken to the nearest of them.
Cos1000(k) ==
    << 1000, 924, 707, 383, 0, -383, -707, -924,
       -1000, -924, -707, -383, 0, 383, 707, 924 >>[(k % 16) + 1]
Sin1000(k) == Cos1000(k + 12)

\* The index of the angle turns * 2 * pi * num / den.
AngleIndex(turns, num, den) ==
    LET x == 16 * turns * num
        q == x \div den
    IN  (IF 2 * (x % den) >= den THEN q + 1 ELSE q) % 16

Gcd(a, b) == CHOOSE g \in 1..Max(a, b) :
                 /\ a % g = 0 /\ b % g = 0
                 /\ \A k \in (g + 1)..Max(a, b) : a % k # 0 \/ b % k # 0

\* smooth_ease_in_out (lines 37-39): t * t * (3 - 2 t), in lowest terms.
SmoothEaseInOut(t) ==
    LET num == t.num * t.num * (3 * t.den - 2 * t.num)
        den == t.den * t.den * t.den
    IN  [num |-> num \div Gcd(num, den), den |-> den \div Gcd(num, den)]

Window(x, y, cw, ch, sw, sh) ==
    [start_x |-> x, start_y |-> y, crop_w |-> cw, crop_h |-> ch,
     scaled_w |-> sw, scaled_h |-> sh]

\* apply_spiral_pan (lines 41-74): the frame scaled by 1.4, the window on a
\* spiral of two turns around the centre, clamped to the scaled frame.
ApplySpiralPan(progress, direction) ==
    LET scaled_w == (FrameW * 14) \div 10
        scaled_h == (FrameH * 14) \div 10
        eased == SmoothEaseInOut(progress)
        turn == AngleIndex(2, eased.num, eased.den)
        angle == IF direction = "counterclockwise" THEN (16 - turn) % 16 ELSE turn
        radius == Min(scaled_w - FrameW, scaled_h - FrameH) \div 3
        center_x == (scaled_w - FrameW) \div 2
        center_y == (scaled_h - FrameH) \div 2
        \* current_radius = radius + radius * 0.3 * sin(2 * angle), in 1/10000
        current_radius == radius * (10000 + 3 * Sin1000(2 * angle))
        start_x == center_x + PyInt(current_radius * Cos1000(angle), 10000000)
        start_y == center_y + PyInt(current_radius * Sin1000(angle), 10000000)
    IN  Window(Max(0, Min(start_x, scaled_w - FrameW)),
               Max(0, Min(start_y, scaled_h - FrameH)),
               FrameW, FrameH, scaled_w, scaled_h)

\* apply_dramatic_zoom with zoom_type punch_in (lines 80-88 and 108-117): the
\* scale runs to 1.6 in the first 0.3 of the progress, then to 2.0; the crop
\* is centred.
ApplyPunchZoom(progress) ==
    LET n == progress.num
        d == progress.den
        scale == IF 10 * n < 3 * d
                 THEN [num |-> d + 2 * n, den |-> d]
                 ELSE [num |-> 10 * d + 4 * n, den |-> 7 * d]
        new_w == PyInt(FrameW * scale.num, scale.den)
        new_h == PyInt(FrameH * scale.num, scale.den)
    IN  Window((new_w - FrameW) \div 2, (new_h - FrameH) \div 2,
               FrameW, FrameH, new_w, new_h)

\* apply_dramatic_zoom with zoom_type dolly_zoom (lines 90-103): zoom to 1.8,
\* the crop moved right by int(progress * 30).
ApplyDollyZoom(progress) ==
    LET n == progress.num
        d == progress.den
        perspective_offset == PyInt(30 * n, d)
        new_w == PyInt(FrameW * (10 * d + 8 * n), 10 * d)
        new_h == PyInt(FrameH * (10 * d + 8 * n), 10 * d)
    IN  Window((new_w - FrameW) \div 2 + perspective_offset, (new_h - FrameH) \div 2,
               FrameW, FrameH, new_w, new_h)

\* apply_focus_pull (lines 121-146) with the default focus point (0.5, 0.5).
ApplyFocusPull(progress) ==
    LET n == progress.num
        d == progress.den
        zoom_scale == IF 2 * n < d
                      THEN [num |-> 10 * d + 4 * n, den |-> 10 * d]
                      ELSE [num |-> 12 * d + 4 * n - 2 * d, den |-> 10 * d]
        new_w == PyInt(FrameW * zoom_scale.num, zoom_scale.den)
        new_h == PyInt(FrameH * zoom_scale.num, zoom_scale.den)
    IN  Window(PyInt(new_w - FrameW, 2), PyInt(new_h - FrameH, 2),
               FrameW, FrameH, new_w, new_h)

\* A stretch that crops the full frame height out of the compressed image.
ApplyStretchEffectFullHeight(progress) ==
    LET n == progress.num
        d == progress.den
        new_w == PyInt(FrameW * (2 * d + n), 2 * d)
        new_h == PyInt(FrameH * (2 * d - n), 2 * d)
        crop_w == Min(new_w, FrameW)
    IN  Window((new_w - crop_w) \div 2, (new_h - FrameH) \div 2,
               crop_w, FrameH, new_w, new_h)

\* apply_stretch_effect (lines 148-170): the width stretched by up to 1.5, the
\* height compressed by as much, the crop no larger than the stretched image.
ApplyStretchEffect(progress) ==
    LET n == progress.num
        d == progress.den
        new_w == PyInt(FrameW * (2 * d + n), 2 * d)
        new_h == PyInt(FrameH * (2 * d - n), 2 * d)
        crop_w == Min(new_w, FrameW)
        crop_h == Min(new_h, FrameH)
    IN  Window((new_w - crop_w) \div 2, (new_h - crop_h) \div 2,
               crop_w, crop_h, new_w, new_h)

\* apply_cool_pan (lines 172-204): the frame scaled by 1.3, the window on a
\* circle that widens with the progress, clamped to the scaled frame.
ApplyCoolPan(progress) ==
    LET scaled_w == (FrameW * 13) \div 10
        scaled_h == (FrameH * 13) \div 10
        eased == SmoothEaseInOut(progress)
        angle == AngleIndex(1, eased.num, eased.den)
        radius == Min(scaled_w - FrameW, scaled_h - FrameH) \div 4
        \* zoom_scale = 1.0 + eased_progress * 0.3, in ten-thousandths
        zoom_scale == [num |-> 10000 + (3000 * eased.num) \div eased.den, den |-> 10000]
        center_x == (scaled_w - FrameW) \div 2
        center_y == (scaled_h - FrameH) \div 2
        start_x == center_x + PyInt(radius * Cos1000(angle) * zoom_scale.num,
                                    1000 * zoom_scale.den)
        start_y == center_y + PyInt(radius * Sin1000(angle) * zoom_scale.num,
                                    1000 * zoom_scale.den)
    IN  Window(Max(0, Min(start_x, scaled_w - FrameW)),
               Max(0, Min(start_y, scaled_h - FrameH)),
               FrameW, FrameH, scaled_w, scaled_h)

\* create_scene_clip lines 415-431: the crop an effect type takes at a progress.
ApplyEffect(effect_type, progress) ==
    CASE effect_type = "dramatic_zoom_punch" -> ApplyPunchZoom(progress)
      [] effect_type = "dramatic_zoom_dolly" -> ApplyDollyZoom(progress)
      [] effect_type = "spiral_pan_clockwise" -> ApplySpiralPan(progress, "clockwise")
      [] effect_type = "spiral_pan_counterclockwise"
            -> ApplySpiralPan(progress, "counterclockwise")
      [] effect_type = "stretch_effect" -> ApplyStretchEffect(progress)
      [] effect_type = "focus_pull" -> ApplyFocusPull(progress)
      [] effect_type = "cool_pan" -> ApplyCoolPan(progress)

\* One pass of the loop of create_scene_clip (lines 412-435): a frame of an
\* effect is rendered at a progress.
RenderFrame(effect_type, progress) ==
    /\ window' = [effect |-> effect_type, progress |-> progress,
                  crop |-> ApplyEffect(effect_type, progress)]
    /\ UNCHANGED <<webvars, jobvars, pipevars, selected, merged, accepted_board, enhvars>>

GeometryNext ==
    \E effect_type \in GetRandomEffectCombination(0) : \E progress \in Progresses :
        RenderFrame(effect_type, progress)

GeometrySpec == Init /\ [][GeometryNext]_vars

\* ------------------------------------------------------------- music looping
\* Durations of the narration and of the music file, in hundredths of a second.
MaxClip == 12
ClipLengths == 1..MaxClip

\* A loop count without the extra copy.
LoopsNeededFloor(narration_duration, music_duration) ==
    narration_duration \div music_duration

\* line 557: loops_needed = int(narration_duration / music_duration) + 1.
LoopsNeeded(narration_duration, music_duration) ==
    (narration_duration \div music_duration) + 1

\* lines 555-558: the music is concatenated loops_needed times when it is
\* shorter than the narration.
LoopedDuration(narration_duration, music_duration) ==
    IF music_duration < narration_duration
    THEN music_duration * LoopsNeeded(narration_duration, music_duration)
    ELSE music_duration

\* clip.subclipped(0, end): the duration of the result; moviepy raises
\* ValueError when end lies beyond the end of the clip.
Subclipped(duration, end) == IF end > duration THEN "ValueError" ELSE end

\* merge_audio_with_music lines 547-561 for a narration and a music file of
\* the given durations.
MergeDurations(narration_duration, music_duration) ==
    /\ merged' =
          [narration_duration |-> narration_duration,
           music_duration |-> music_duration,
           looped |-> LoopedDuration(narration_duration, music_duration),
           trimmed |-> Subclipped(LoopedDuration(narration_duration, music_duration),
                                  narration_duration)]
    /\ UNCHANGED <<webvars, jobvars, pipevars, selected, window, accepted_board, enhvars>>

MergeNext ==
    \E narration_duration \in ClipLengths : \E music_duration \in ClipLengths :
        MergeDurations(narration_duration, music_duration)

MergeSpec == Init /\ [][MergeNext]_vars

\* ------------------------------------------------------------- image enhancement
\* app.py: enhance_image, modify_image, enhance_drawing_with_gemini and the
\* two threads they start.  A request thread serves one request.
TicksPerSecond == 2

\* line 458: f"req_{datetime.now().timestamp()}".
EnhanceRequestId == <<"req", clock>>
\* line 817: f"modify_{int(time.time())}", whole seconds.
ModifyRequestId == <<"modify", clock \div TicksPerSecond>>

ProcessingStatusOf(r) ==
    IF r \in DOMAIN processing_status THEN processing_status[r] ELSE "absent"

SetProcessingStatus(r, status) ==
    [x \in DOMAIN processing_status \cup {r} |->
        IF x = r THEN status ELSE processing_status[x]]

EnhanceOthers == <<webvars, jobvars, pipevars, selected, window, merged, accepted_board,
                   GEMINI_API_KEY>>

\* enhance_image, lines 423-431: the body is read; no filename answers 400.
EnhanceImageReceive(c, has_filename) ==
    /\ epc[c] = "idle"
    /\ endpoint' = [endpoint EXCEPT ![c] = "enhance"]
    /\ IF has_filename
       THEN /\ epc' = [epc EXCEPT ![c] = "check"]
            /\ UNCHANGED enhance_response
       ELSE /\ epc' = [epc EXCEPT ![c] = "done"]
            /\ enhance_response' = [enhance_response EXCEPT ![c] = [code |-> 400]]
    /\ UNCHANGED <<is_processing, processing_status, enhance_id, dpc, mpc, tpc>>
    /\ UNCHANGED EnhanceOthers

\* enhance_image, lines 434-439: the busy check.
EnhanceImageCheck(c) ==
    /\ epc[c] = "check"
    /\ endpoint[c] = "enhance"
    /\ IF is_processing
       THEN /\ epc' = [epc EXCEPT ![c] = "done"]
            /\ enhance_response' =
                  [enhance_response EXCEPT ![c] = [code |-> 429, status |-> "busy"]]
       ELSE /\ epc' = [epc EXCEPT ![c] = "validate"]
            /\ UNCHANGED enhance_response
    /\ UNCHANGED <<is_processing, processing_status, endpoint, enhance_id, dpc, mpc, tpc>>
    /\ UNCHANGED EnhanceOthers

\* enhance_image, lines 442-462: the file is looked up and opened, the request
\* id is made and enhance_drawing_with_gemini is entered.
EnhanceImageValidate(c, file) ==
    /\ epc[c] = "validate"
    /\ CASE file = "missing" ->
              /\ epc' = [epc EXCEPT ![c] = "done"]
              /\ enhance_response' = [enhance_response EXCEPT ![c] = [code |-> 404]]
              /\ UNCHANGED <<enhance_id, dpc>>
         [] file = "invalid" ->
              /\ epc' = [epc EXCEPT ![c] = "done"]
              /\ enhance_response' = [enhance_response EXCEPT ![c] = [code |-> 400]]
              /\ UNCHANGED <<enhance_id, dpc>>
         [] OTHER ->
              /\ epc' = [epc EXCEPT ![c] = "call"]
              /\ enhance_id' = [enhance_id EXCEPT ![c] = EnhanceRequestId]
              /\ dpc' = [dpc EXCEPT ![c] = "prepare"]
              /\ UNCHANGED enhance_response
    /\ UNCHANGED <<is_processing, processing_status, endpoint, mpc, tpc>>
    /\ UNCHANGED EnhanceOthers

\* enhance_image, lines 465-469: enhance_drawing_with_gemini has returned.
EnhanceImageRespond(c) ==
    /\ epc[c] = "call"
    /\ endpoint[c] = "enhance"
    /\ dpc[c] = "returned"
    /\ epc' = [epc EXCEPT ![c] = "done"]
    /\ enhance_response' =
          [enhance_response EXCEPT ![c] = [code |-> 200, status |-> "started"]]
    /\ UNCHANGED <<is_processing, processing_status, endpoint, enhance_id, dpc, mpc, tpc>>
    /\ UNCHANGED EnhanceOthers

\* modify_image, lines 810-817 and 885-892: the body is read and the request
\* id made; a body that is no JSON object raises, and the handler of the
\* exception clears the flag.
ModifyImageReceive(c, body) ==
    /\ epc[c] = "idle"
    /\ endpoint' = [endpoint EXCEPT ![c] = "modify"]
    /\ IF body = "object"
       THEN /\ epc' = [epc EXCEPT ![c] = "check"]
            /\ enhance_id' = [enhance_id EXCEPT ![c] = ModifyRequestId]
            /\ UNCHANGED <<is_processing, enhance_response>>
       ELSE /\ epc' = [epc EXCEPT ![c] = "done"]
            /\ is_processing' = FALSE
            /\ enhance_response' =
                  [enhance_response EXCEPT ![c] = [code |-> 500, status |-> "error"]]
            /\ UNCHANGED enhance_id
    /\ UNCHANGED <<processing_status, dpc, mpc, tpc>>
    /\ UNCHANGED EnhanceOthers

\* modify_image, lines 820-825: the busy check.
ModifyImageCheck(c) ==
    /\ epc[c] = "check"
    /\ endpoint[c] = "modify"
    /\ IF is_processing
       THEN /\ epc' = [epc EXCEPT ![c] = "done"]
            /\ enhance_response' =
                  [enhance_response EXCEPT ![c] = [code |-> 400, status |-> "busy"]]
       ELSE /\ epc' = [epc EXCEPT ![c] = "find"]
            /\ UNCHANGED enhance_response
    /\ UNCHANGED <<is_processing, processing_status, endpoint, enhance_id, dpc, mpc, tpc>>
    /\ UNCHANGED EnhanceOthers

\* modify_image, lines 828-845: the latest enhanced image is looked up; with
\* one found the flag is set and the status recorded.
ModifyImageFind(c, found) ==
    /\ epc[c] = "find"
    /\ IF found
       THEN /\ epc' = [epc EXCEPT ![c] = "start"]
            /\ is_processing' = TRUE
            /\ processing_status' = SetProcessingStatus(enhance_id[c], "processing")
            /\ UNCHANGED enhance_response
       ELSE /\ epc' = [epc EXCEPT ![c] = "done"]
            /\ enhance_response' =
                  [enhance_response EXCEPT ![c] = [code |-> 404, status |-> "error"]]
            /\ UNCHANGED <<is_processing, processing_status>>
    /\ UNCHANGED <<endpoint, enhance_id, dpc, mpc, tpc>>
    /\ UNCHANGED EnhanceOthers

\* modify_image, lines 875-883: process_modification is started.
ModifyImageStart(c) ==
    /\ epc[c] = "start"
    /\ epc' = [epc EXCEPT ![c] = "done"]
    /\ mpc' = [mpc EXCEPT ![c] = "call"]
    /\ dpc' = [dpc EXCEPT ![c] = "prepare"]
    /\ enhance_response' =
          [enhance_response EXCEPT ![c] = [code |-> 200, status |-> "processing"]]
    /\ UNCHANGED <<is_processing, processing_status, endpoint, enhance_id, tpc>>
    /\ UNCHANGED EnhanceOthers

PrepareOutcomes == {"read", "unreadable", "raises"}

\* enhance_drawing_with_gemini, lines 90-117, 254 and 262-267: without a key,
\* with an unreadable image or on an exception the status is an error and the
\* flag is cleared; otherwise the status becomes processing.
EnhanceDrawingPrepare(c, outcome) ==
    /\ dpc[c] = "prepare"
    /\ IF GEMINI_API_KEY /\ outcome = "read"
       THEN /\ processing_status' = SetProcessingStatus(enhance_id[c], "processing")
            /\ dpc' = [dpc EXCEPT ![c] = "setflag"]
            /\ UNCHANGED is_processing
       ELSE /\ processing_status' = SetProcessingStatus(enhance_id[c], "error")
            /\ is_processing' = FALSE
            /\ dpc' = [dpc EXCEPT ![c] = "returned"]
    /\ UNCHANGED <<epc, endpoint, enhance_id, enhance_response, mpc, tpc>>
    /\ UNCHANGED EnhanceOthers

\* enhance_drawing_with_gemini, line 255.
EnhanceDrawingSetFlag(c) ==
    /\ dpc[c] = "setflag"
    /\ is_processing' = TRUE
    /\ dpc' = [dpc EXCEPT ![c] = "start"]
    /\ UNCHANGED <<processing_status, epc, endpoint, enhance_id, enhance_response, mpc, tpc>>
    /\ UNCHANGED EnhanceOthers

\* enhance_drawing_with_gemini, lines 258-260: process_with_gemini is started
\* and None returned.
EnhanceDrawingStart(c) ==
    /\ dpc[c] = "start"
    /\ tpc' = [tpc EXCEPT ![c] = "call"]
    /\ dpc' = [dpc EXCEPT ![c] = "returned"]
    /\ UNCHANGED <<is_processing, processing_status, epc, endpoint, enhance_id,
                   enhance_response, mpc>>
    /\ UNCHANGED EnhanceOthers

GeminiOutcomes == {"image", "no image", "api error", "raises"}

\* process_with_gemini, lines 122-248: the image model answers.
ProcessWithGemini(c, outcome) ==
    /\ tpc[c] = "call"
    /\ processing_status' =
          SetProcessingStatus(enhance_id[c],
                              IF outcome = "image" THEN "complete" ELSE "error")
    /\ IF outcome = "api error"
       THEN is_processing' = FALSE
       ELSE UNCHANGED is_processing
    /\ tpc' = [tpc EXCEPT ![c] = "finally"]
    /\ UNCHANGED <<epc, endpoint, enhance_id, enhance_response, dpc, mpc>>
    /\ UNCHANGED EnhanceOthers

\* process_with_gemini, lines 250-251.
ProcessWithGeminiFinally(c) ==
    /\ tpc[c] = "finally"
    /\ is_processing' = FALSE
    /\ tpc' = [tpc EXCEPT ![c] = "done"]
    /\ UNCHANGED <<processing_status, epc, endpoint, enhance_id, enhance_response, dpc, mpc>>
    /\ UNCHANGED EnhanceOthers

\* process_modification, lines 852-865: enhance_drawing_with_gemini returns
\* None on every path, so the status becomes an error.
ProcessModification(c) ==
    /\ mpc[c] = "call"
    /\ dpc[c] = "returned"
    /\ processing_status' = SetProcessingStatus(enhance_id[c], "error")
    /\ mpc' = [mpc EXCEPT ![c] = "finally"]
    /\ UNCHANGED <<is_processing, epc, endpoint, enhance_id, enhance_response, dpc, tpc>>
    /\ UNCHANGED EnhanceOthers

\* process_modification, lines 871-872.
ProcessModificationFinally(c) ==
    /\ mpc[c] = "finally"
    /\ is_processing' = FALSE
    /\ mpc' = [mpc EXCEPT ![c] = "done"]
    /\ UNCHANGED <<processing_status, epc, endpoint, enhance_id, enhance_response, dpc, tpc>>
    /\ UNCHANGED EnhanceOthers

EnhanceInit ==
    /\ storyboard_images = <<>>
    /\ gemini_key = TRUE
    /\ include_music = FALSE
    /\ WebInitVars
    /\ PipeInitVars
    /\ GEMINI_API_KEY \in BOOLEAN

EnhanceNext ==
    \/ Tick
    \/ \E c \in Handlers :
          \/ \E has_filename \in BOOLEAN : EnhanceImageReceive(c, has_filename)
          \/ EnhanceImageCheck(c)
          \/ \E file \in {"missing", "invalid", "image"} : EnhanceImageValidate(c, file)
          \/ EnhanceImageRespond(c)
          \/ \E body \in {"object", "other"} : ModifyImageReceive(c, body)
          \/ ModifyImageCheck(c)
          \/ \E found \in BOOLEAN : ModifyImageFind(c, found)
          \/ ModifyImageStart(c)
          \/ \E outcome \in PrepareOutcomes : EnhanceDrawingPrepare(c, outcome)
          \/ EnhanceDrawingSetFlag(c)
          \/ EnhanceDrawingStart(c)
          \/ \E outcome \in GeminiOutcomes : ProcessWithGemini(c, outcome)
          \/ ProcessWithGeminiFinally(c)
          \/ ProcessModification(c)
          \/ ProcessModificationFinally(c)

EnhanceSpec == EnhanceInit /\ [][EnhanceNext]_vars

\* ------------------------------------------------------------- the front door
Next ==
    \/ \E p \in BoardPaths : AddToStoryboard(p)
    \/ ClearStoryboard
    \/ Tick
    \/ \E h \in Handlers : Handler(h)
    \/ \E w \in Workers : Worker(w)
    \/ \E w \in Workers : GVCollect(w)
    \/ \E w \in Workers : GVRun(w)

Spec == Init /\ [][Next]_vars

\* ------------------------------------------------------------- one request, stage by stage
\* The image lists a request starts from, up to a renaming of the paths (the
\* code only tests paths for equality): a path occurs for the first time after
\* the paths before it in PathOrder.
PathOrder == <<"A", "B", "C">>

ImageLists ==
    {s \in SeqsUpTo(Paths, MaxImages) :
        \A i \in 1..Len(s) : \A k \in 1..Len(PathOrder) :
            s[i] = PathOrder[k]
                => \A j \in 1..(k - 1) : \E m \in 1..(i - 1) : s[m] = PathOrder[j]}

PipeInit ==
    /\ storyboard_images \in ImageLists
    /\ gemini_key \in BOOLEAN
    /\ include_music = FALSE
    /\ WebInitVars
    /\ PipeInitVars
    /\ GEMINI_API_KEY = TRUE

PipeNext ==
    \/ \E h \in PipeHandlers : Handler(h)
    \/ \E w \in Workers : Worker(w)
    \/ \E w \in Workers : GenerateVideo(w)

PipeSpec == PipeInit /\ [][PipeNext]_vars

\* The worker thread, once started, keeps running until it ends.
FairPipeSpec ==
    PipeSpec /\ \A w \in Workers : WF_vars(Worker(w) \/ GenerateVideo(w))

\* ------------------------------------------------------------- a direct call
\* generate_video called by a caller of the class (as main does at line 796)
\* with a list of images, here held in storyboard_images, and include_music
\* either way.  The caller is caller 1, inside the call from the start.
VideoCallers == {1}

VideoInit ==
    /\ storyboard_images \in ImageLists
    /\ gemini_key \in BOOLEAN
    /\ include_music \in BOOLEAN
    /\ is_video_processing = FALSE
    /\ video_processing_status = <<>>
    /\ clock = 1
    /\ hpc = [h \in Handlers |-> "idle"]
    /\ request_id = [h \in Handlers |-> 0]
    /\ http_response = [h \in Handlers |-> [code |-> 0]]
    /\ wpc = [r \in Workers |-> IF r \in VideoCallers THEN "call" ELSE "none"]
    /\ video_path = [r \in Workers |-> None]
    /\ gpc = [r \in Workers |-> IF r \in VideoCallers THEN "collect" ELSE "idle"]
    /\ image_paths = [r \in Workers |-> <<>>]
    /\ PipeInitVars
    /\ GEMINI_API_KEY = TRUE

VideoNext ==
    \/ \E w \in VideoCallers : GenerateVideo(w)
    \/ \E w \in VideoCallers : BackgroundMusic(w)

VideoSpec == VideoInit /\ [][VideoNext]_vars

\* ------------------------------------------------------------- the claims
Running(w) == wpc[w] \in {"start", "check", "call", "finally"}

Returned(r) ==
    \E h \in Handlers :
        /\ hpc[h] = "done"
        /\ http_response[h].code = 200
        /\ http_response[h].requestId = r

JobProcessing == \E r \in RequestIds : StatusOf(r) = "processing"

\* C1: at most one video-generation worker thread is running at any time,
\* whatever the interleaving of the request threads.
C1_AtMostOneWorker == Cardinality({w \in Workers : Running(w)}) <= 1

\* C4: once a request has returned its id, a poll of that id answers with one
\* of the statuses processing, complete and error, never with "not found".
C4_PollKnowsReturnedId ==
    \A r \in RequestIds :
        Returned(r) =>
            /\ CheckVideoStatus(r).code = 200
            /\ CheckVideoStatus(r).body.status \in {"processing", "complete", "error"}

\* C5: a generate-video request that is served while some job has status
\* processing is answered with the busy signal (429): it neither gets another
\* answer nor goes on to set the flag and start a worker, and its step leaves
\* the busy flag and the status records as they are.
C5_BusyWheneverProcessing ==
    [][\A h \in Handlers :
          (JobProcessing /\ hpc[h] \in {"idle", "check_busy"} /\ hpc'[h] # hpc[h])
              => /\ \/ hpc'[h] = "check_busy"
                    \/ hpc'[h] = "done" /\ http_response'[h].code = 429
                 /\ UNCHANGED <<is_video_processing, video_processing_status, wpc>>]_vars

\* ------------------------------------------------------------- one job, stage by stage
InGenerateVideo(w) == wpc[w] = "call" /\ gpc[w] \notin {"idle", "collect", "returned"}

TtsCalls == {i \in 1..Len(calls) : calls[i].to = "tts"}

\* C2: when text-to-speech has failed for a narration unit, that call is the
\* last call to any collaborator and the only one for its unit, no frame has
\* been rendered, no output file exists, and the job's status, once the worker
\* has recorded it, is error.
C2_TtsFailureIsFatal ==
    error = TtsError =>
        /\ calls # <<>>
        /\ calls[Len(calls)] = Call("tts", Len(audio_paths))
        /\ Cardinality(TtsCalls) = Len(audio_paths) + 1
        /\ all_frames = <<>>
        /\ durations = <<>>
        /\ output_dir = {}
        /\ \A w \in Workers :
              /\ gpc[w] \in {"idle", "returned"}
              /\ video_path[w] = None
              /\ wpc[w] \in {"finally", "done"} => StatusOf(request_id[w]) = "error"

\* C2 witness: the third unit (the first scene) failed after title and
\* introduction were synthesized, and the job has ended in error.
C2_Witness ==
    /\ error = TtsError
    /\ Len(audio_paths) = 2
    /\ wpc[1] = "done"
    /\ StatusOf(request_id[1]) = "error"

\* C3: every started worker eventually ends with its job in status complete
\* or error and the busy flag cleared, whatever the collaborators and stages
\* do.
C3_JobTerminates ==
    \A w \in Workers :
        (wpc[w] = "start") ~>
            (/\ wpc[w] = "done"
             /\ StatusOf(request_id[w]) \in {"complete", "error"}
             /\ ~is_video_processing)

\* C3 witness: a job in which a stage raised has ended in error with the flag
\* cleared.
C3_Witness ==
    /\ wpc[1] = "done"
    /\ error \notin {NoError, TtsError}
    /\ StatusOf(request_id[1]) = "error"
    /\ ~is_video_processing

\* C6: a request whose image list has fewer than two distinct paths never
\* reaches a collaborator.
C6_FewerThanTwoDistinctNoCalls ==
    Cardinality(Range(storyboard_images)) < 2 => calls = <<>>

\* C7: inside generate_video, after the collecting stage, the image list has
\* no duplicates, holds the paths of the request in the order of their first
\* occurrence, and no collaborator was called before that; a request of
\* [A, B, A, C] works on [A, B, C], and a job that reaches encoding has one
\* scene per distinct path, one narration clip per unit and two blocks per
\* scene after title and introduction.
C7_DedupFirstOccurrence ==
    \A w \in Workers :
        /\ (wpc[w] = "call" /\ gpc[w] = "collect") => calls = <<>>
        /\ InGenerateVideo(w) =>
              /\ NoDuplicates(image_paths[w])
              /\ Range(image_paths[w]) = Range(storyboard_images)
              /\ \A i, j \in 1..Len(image_paths[w]) :
                    i < j => FirstIndex(storyboard_images, image_paths[w][i])
                               < FirstIndex(storyboard_images, image_paths[w][j])
              /\ storyboard_images = <<"A", "B", "A", "C">>
                    => image_paths[w] = <<"A", "B", "C">>
              /\ gpc[w] = "encode" =>
                    /\ ScenesRendered = Cardinality(Range(storyboard_images))
                    /\ Len(all_frames) = 2 + 2 * Cardinality(Range(storyboard_images))
                    /\ [i \in 1..ScenesRendered |->
                           all_frames[2 + 2 * i].image] = image_paths[w]

\* C7 witness: the job of [A, B, A, C] has rendered its three scenes.
C7_Witness ==
    /\ storyboard_images = <<"A", "B", "A", "C">>
    /\ wpc[1] = "call"
    /\ gpc[1] = "encode"
    /\ ScenesRendered = 3

Unparsable(resp) ==
    /\ resp.kind = "text"
    /\ ~JsonLoads(CleanResponse(resp.text)).ok

\* C8: when the narrative text cannot be parsed after cleaning, analyze_images
\* returns the fallback document with one scene narration per image, raises
\* nothing, and the job goes on to narration synthesis; the text "not json at
\* all" is such a text.
C8_FallbackOnBadJson ==
    /\ Unparsable([kind |-> "text", text |-> <<Junk>>])
    /\ [][\A w \in Workers :
             (/\ wpc[w] = "call"
              /\ gpc[w] = "story_parse"
              /\ Unparsable(response)
              /\ gpc'[w] # gpc[w])
                 => /\ story_data' = FallbackStory(Len(image_paths[w]))
                    /\ Len(story_data'.scene_narrations) = Len(image_paths[w])
                    /\ gpc'[w] = "tts"
                    /\ error' = NoError]_vars

\* C8 witness: the narrative call has returned "not json at all" and the fallback
\* document is being narrated.
C8_Witness ==
    /\ wpc[1] = "call"
    /\ gpc[1] = "tts"
    /\ story_data = FallbackStory(Len(image_paths[1]))
    /\ calls[Len(calls)] = Call("tts", 0)
    /\ Len(image_paths[1]) = 3

\* C9: the story document the pipeline works with has exactly one scene
\* narration per image of the deduplicated list.
C9_NarrationsMatchImages ==
    \A w \in Workers :
        (wpc[w] = "call" /\ gpc[w] \in {"tts", "title", "intro", "scenes", "encode"})
            => /\ "scene_narrations" \in DOMAIN story_data
               /\ Len(story_data.scene_narrations) = Len(image_paths[w])

\* C10: once past the key check, analyze_images does not raise: no step of the
\* captioning loop, the narrative call or its handler leaves generate_video.
C10_AnalyzeNeverRaises ==
    [][\A w \in Workers :
          gpc[w] \in {"caption", "story_parse", "story_except"}
              => gpc'[w] # "returned"]_vars

InAnalyze(w) == wpc[w] = "call" /\ gpc[w] \in {"caption", "story_parse", "story_except"}

\* C11: while the images are captioned, the collaborator has been called exactly
\* once for each image described so far, in image order; each description is
\* that of its image or the placeholder; every image is described when the
\* narrative call is made; and analyze_images is never left by an exception
\* when a caption failed.
C11_OneCaptionCallPerImage ==
    /\ [](\A w \in Workers :
             InAnalyze(w) =>
                /\ Len(image_descriptions) <= Len(image_paths[w])
                /\ \A i \in 1..Len(image_descriptions) :
                      /\ image_descriptions[i] \in
                             {Description(image_paths[w][i]), Placeholder}
                      /\ i <= Len(calls) /\ calls[i] = Call("caption", i - 1)
                /\ gpc[w] = "caption" => Len(calls) = Len(image_descriptions)
                /\ gpc[w] # "caption" => Len(image_descriptions) = Len(image_paths[w]))
    /\ [][\A w \in Workers :
             (InAnalyze(w) /\ gpc'[w] = "returned")
                 => Placeholder \notin Range(image_descriptions)]_vars

MusicCalled == \E i \in 1..Len(calls) : calls[i].to = "music"

MusicFailed == include_music /\ MusicCalled /\ music_path = None

\* C12: the music stage never ends the job: whatever the generator does,
\* generate_video goes on to the frames with no error recorded.  When the
\* generator failed, the audio attached to the video is the concatenation of the
\* narration clips, which is also what a call with include_music=False
\* attaches, and no narration or mix file is written for it.
C12_MusicFailureDegrades ==
    /\ [](\A w \in Workers :
             (wpc[w] = "call" /\ final_audio # NotYet /\ (MusicFailed \/ ~include_music))
                 => /\ final_audio = NarrationTrack(audio_paths)
                    /\ temp_files \cap {TempNarration, CombinedAudio} = {})
    /\ [][\A w \in Workers :
             (wpc[w] = "call" /\ gpc[w] \in {"mood", "music"} /\ gpc'[w] # gpc[w])
                 => /\ gpc'[w] \in {"music", "title"}
                    /\ error' = NoError
                    /\ UNCHANGED <<audio_paths, durations, story_data, image_paths>>]_vars

\* C12 witness: a call with include_music=True whose music generation failed
\* has returned the output path, with the narration clips as its audio.
C12_Witness ==
    /\ MusicFailed
    /\ gpc[1] = "returned"
    /\ video_path[1] = OutputPath(1)
    /\ final_audio = NarrationTrack(audio_paths)
    /\ OutputPath(1) \in output_dir

\* C13: with a music file generated, the mixing stage never ends the job: it
\* goes on to encoding with no error recorded, and the track it attaches is the
\* mix or, when a step of the mixing failed, the narration alone.
C13_MixFailureFallsBack ==
    [][\A w \in Workers :
          (wpc[w] = "call" /\ gpc[w] = "mix" /\ music_path # None /\ gpc'[w] # gpc[w])
              => /\ gpc'[w] = "encode"
                 /\ error' = NoError
                 /\ final_audio'.content \in {"narration", "narration and music"}
                 /\ CombinedAudio \notin temp_files'
                       => final_audio'.content = "narration"]_vars

\* C14: when generate_video has returned, with the path or with None, no
\* intermediate file of the job (narration clip, temporary narration, combined
\* audio, music) is left on disk.
C14_NoTempFilesAfterReturn ==
    \A w \in Workers : gpc[w] = "returned" => temp_files = {}

\* C15: a job whose status is error has left no file in the output directory.
C15_NoOutputFileOnError ==
    \A w \in Workers :
        (wpc[w] \in {"finally", "done"} /\ StatusOf(request_id[w]) = "error")
            => OutputPath(w) \notin output_dir

\* C16: when narration synthesis failed, the poll of the job answers with the
\* message of that failure, which points at the quota or the API key.
C16_PollerSeesTtsMessage ==
    \A w \in Workers :
        (error = TtsError /\ wpc[w] \in {"finally", "done"})
            => /\ CheckVideoStatus(request_id[w]).code = 200
               /\ CheckVideoStatus(request_id[w]).body.status = "error"
               /\ CheckVideoStatus(request_id[w]).body.message = TtsError

\* The stage of section 4.6 a position of generate_video belongs to, the
\* derivation of the mood and the generation of the music counted as the stage
\* named by music.
StageAt(pc, path, music) ==
    CASE pc = "collect" -> "Collecting"
      [] pc \in {"analyze", "caption", "story_parse", "story_except"} -> "Describing"
      [] pc = "tts" -> "Narrating"
      [] pc \in {"mood", "music"} -> music
      [] pc \in {"title", "intro", "scenes"} -> "Rendering"
      [] pc = "mix" -> "Mixing"
      [] pc = "encode" -> "Encoding"
      [] pc = "returned" -> IF path = None THEN "Failed" ELSE "Done"
      [] OTHER -> "Idle"

StageRank(stage) ==
    CASE stage = "Collecting" -> 1
      [] stage = "Describing" -> 2
      [] stage = "Narrating" -> 3
      [] stage = "MusicGeneration" -> 4
      [] stage = "Rendering" -> 5
      [] stage = "Mixing" -> 6
      [] stage = "Encoding" -> 7
      [] OTHER -> 8

\* The narration clips have all been loaded and their durations read.
DurationsKnown == Len(audio_paths) >= 2 /\ Len(durations) = Len(audio_paths)

C18_TimelineOrder ==
    \A w \in Workers :
        (wpc[w] = "call" /\ all_frames # <<>>)
            => LET n == Len(image_paths[w])
                   len == Len(all_frames)
               IN  /\ len <= 2 + 2 * n
                   /\ gpc[w] \in {"mix", "encode"} => len = 2 + 2 * n
                   /\ len >= 3 => len % 2 = 0
                   /\ all_frames[1].kind = "title"
                   /\ all_frames[1].image = image_paths[w][1]
                   /\ all_frames[1].duration = durations[1]
                   /\ len >= 2 => /\ all_frames[2].kind = "intro"
                                  /\ all_frames[2].image = image_paths[w][1]
                                  /\ all_frames[2].duration = durations[2]
                   /\ \A i \in 1..n :
                         2 * i + 2 <= len
                             => /\ all_frames[2 * i + 1].kind = "transition"
                                /\ all_frames[2 * i + 2].kind = "scene"
                                /\ all_frames[2 * i + 2].image = image_paths[w][i]
                                /\ all_frames[2 * i + 2].duration = durations[i + 2]

\* Three scenes, with clips of different durations, have all been rendered.
C18_Witness ==
    \E w \in Workers :
        /\ wpc[w] = "call"
        /\ gpc[w] = "encode"
        /\ Len(image_paths[w]) = 3
        /\ Len(all_frames) = 8
        /\ durations[3] # durations[4]

\* generate_video has returned the path of the video.
Completed(w) == wpc[w] = "call" /\ gpc[w] = "returned" /\ video_path[w] # None

\* The frames of the title, the introduction and the scenes.
NarratedFrames ==
    TotalFrames(SelectSeq(all_frames, LAMBDA b : b.kind # "transition"))

\* C19 (as stated): for a completed job the title, introduction and scene
\* frames number fps times the sum of the durations of all narration clips.
C19_FramesEqualFpsTimesDuration ==
    \A w \in Workers :
        Completed(w) => NarratedFrames * DurUnit = Fps * SumSeq(durations)

\* C19 (amended): for a completed job over n images the title, introduction and
\* scene frames number the sum, over the first n + 2 clips, of fps times the
\* duration of the clip with its fraction dropped; this is never more than fps
\* times the sum of those durations and less by under one frame per clip.
C19_FramesAreTruncatedPerClip ==
    \A w \in Workers :
        Completed(w)
            => LET units == Len(image_paths[w]) + 2
                   used == SubSeq(durations, 1, units)
               IN  /\ units <= Len(durations)
                   /\ NarratedFrames
                         = SumSeq([u \in 1..units |-> (Fps * durations[u]) \div DurUnit])
                   /\ NarratedFrames * DurUnit <= Fps * SumSeq(used)
                   /\ Fps * SumSeq(used) < (NarratedFrames + units) * DurUnit

\* A completed job one of whose clips lasts a fractional number of frames.
C19_Witness ==
    \E w \in Workers :
        /\ Completed(w)
        /\ \E u \in 1..(Len(image_paths[w]) + 2) : (Fps * durations[u]) % DurUnit # 0
        /\ NarratedFrames * DurUnit < Fps * SumSeq(durations)

\* The title, introduction and scene blocks rendered so far.
NarratedBlocks ==
    {all_frames[k] : k \in {j \in 1..Len(all_frames) : all_frames[j].kind # "transition"}}

\* The progress of frame i of a clip of the given duration is i divided by
\* fps times the duration, and lies in [0, 1).
ProgressInUnitInterval(i, duration) ==
    LET p == Progress(i, duration)
    IN  /\ p.den > 0
        /\ p.num * (Fps * duration) = i * DurUnit * p.den
        /\ 0 <= p.num
        /\ p.num < p.den

\* C20 (as stated): a title, introduction or scene block of a clip of duration
\* d > 0 has round(fps * d) frames, and the progress of its frame i is
\* i / (fps * d), in [0, 1).
C20_FrameCountIsRounded ==
    \A b \in NarratedBlocks :
        b.duration > 0
            => /\ b.frames = RoundHalfEven(Fps * b.duration, DurUnit)
               /\ \A i \in 0..(b.frames - 1) : ProgressInUnitInterval(i, b.duration)

\* C20 (amended): such a block has int(fps * d) frames, the product with its
\* fraction dropped, and the progress of its frame i is i / (fps * d), in [0, 1).
C20_FrameCountIsTruncated ==
    \A b \in NarratedBlocks :
        b.duration > 0
            => /\ b.frames * DurUnit <= Fps * b.duration
               /\ Fps * b.duration < (b.frames + 1) * DurUnit
               /\ \A i \in 0..(b.frames - 1) : ProgressInUnitInterval(i, b.duration)

\* A scene rendered for a clip that lasts 4.8 frames, and a block rendered
\* for a clip that lasts a whole number of frames.
C20_Witness ==
    /\ \E b \in NarratedBlocks :
          /\ b.kind = "scene"
          /\ (Fps * b.duration) % DurUnit # 0
          /\ b.frames = 4
    /\ \E b \in NarratedBlocks : (Fps * b.duration) % DurUnit = 0 /\ b.frames > 0

\* C21: two selections for the same scene index give the same effect kind,
\* and every selected effect is one the renderer has a branch for.
C21_EffectIsFunctionOfIndex ==
    /\ \A i, j \in 1..Len(selected) :
          selected[i].scene_index = selected[j].scene_index
              => selected[i].effect = selected[j].effect
    /\ \A i \in 1..Len(selected) : selected[i].rendered_by # "img.copy"

\* C22: for every effect and every progress in [0, 1) the crop window lies
\* inside the scaled image: the start offsets are not negative and start plus
\* crop size does not exceed the scaled width and height.
C22_CropInsideScaledFrame ==
    window # NotYet
        => /\ window.progress.num >= 0
           /\ window.progress.num < window.progress.den
           /\ window.crop.start_x >= 0
           /\ window.crop.start_y >= 0
           /\ window.crop.start_x + window.crop.crop_w <= window.crop.scaled_w
           /\ window.crop.start_y + window.crop.crop_h <= window.crop.scaled_h

\* A dolly zoom late in the clip, its crop moved right of the centre.
C22_Witness ==
    /\ window # NotYet
    /\ window.effect = "dramatic_zoom_dolly"
    /\ 2 * window.progress.num > window.progress.den
    /\ window.crop.start_x > (window.crop.scaled_w - window.crop.crop_w) \div 2

C24_LoopThenTrimToNarration ==
    merged # NotYet
        => /\ merged.music_duration < merged.narration_duration
                 => /\ merged.looped % merged.music_duration = 0
                    /\ merged.looped > merged.music_duration
                    /\ merged.looped >= merged.narration_duration
           /\ merged.music_duration >= merged.narration_duration
                 => merged.looped = merged.music_duration
           /\ merged.trimmed = merged.narration_duration

\* A narration that is a whole multiple of a shorter music track.
C24_Witness ==
    /\ merged # NotYet
    /\ merged.music_duration < merged.narration_duration
    /\ merged.narration_duration % merged.music_duration = 0
    /\ merged.trimmed = merged.narration_duration

C26_StatusOnlyMovesForward ==
    [][\A r \in RequestIds :
          /\ StatusOf(r) = "absent" => StatusOf(r)' \in {"absent", "processing"}
          /\ StatusOf(r) = "processing"
                => StatusOf(r)' \in {"processing", "complete", "error"}
          /\ StatusOf(r) \in {"complete", "error"}
                => /\ r \in DOMAIN video_processing_status'
                   /\ video_processing_status'[r] = video_processing_status[r]]_vars

\* A worker that has not yet recorded the outcome of its job.
Working(w) == wpc[w] \in {"start", "check", "call"}

\* C27: while the busy flag is false no request id has status processing and
\* no worker is at work; the flag is cleared only by a worker that has
\* recorded complete or error for its request.
C27_IdleFlagMeansNoJob ==
    /\ [](~is_video_processing
             => /\ ~JobProcessing
                /\ \A w \in Workers : ~Working(w))
    /\ [][(is_video_processing /\ ~is_video_processing')
             => \E w \in Workers :
                   /\ wpc[w] \in {"check", "finally"}
                   /\ wpc'[w] # wpc[w]
                   /\ StatusOf(request_id[w])' \in {"complete", "error"}]_vars

\* C28: a job works on the storyboard as it was when its request was
\* accepted: accepted with at least two images, it does not end on the
\* worker's check of the storyboard, and the images generate_video collects
\* are those of the storyboard at acceptance.
C28_JobUsesStoryboardAtAcceptance ==
    /\ [][\A w \in Workers :
             (wpc[w] = "check" /\ wpc'[w] # "check" /\ Len(accepted_board[w]) >= 2)
                 => wpc'[w] = "call"]_vars
    /\ [][\A w \in Workers :
             (/\ wpc[w] = "call" /\ gpc[w] = "collect" /\ gpc'[w] # "collect"
              /\ Len(accepted_board[w]) >= 2)
                 => /\ gpc'[w] = "analyze"
                    /\ image_paths'[w] = Dedup(accepted_board[w])]_vars

\* C29: in a job whose narration clips all last longer than zero (one clip
\* for the title, one for the introduction and one for every image), no step
\* of the rendering ends the job: every scene has a first frame and the
\* sequence a last frame when a transition is built.
C29_RenderingNeverFailsOnShortClip ==
    [][\A w \in Workers :
          (/\ wpc[w] = "call"
           /\ gpc[w] \in {"title", "intro", "scenes"}
           /\ Len(durations) >= Len(image_paths[w]) + 2
           /\ \A u \in 1..Len(durations) : durations[u] > 0)
              => /\ gpc'[w] # "returned"
                 /\ error' = NoError]_vars

\* C30: at most one process_with_gemini thread has a call of the image model
\* in flight; while one has, is_processing is TRUE and every enhance-image or
\* modify-image request that reaches its busy check is rejected as busy.
GeminiInFlight == {c \in Handlers : tpc[c] = "call"}
C30_OneImageWorkerInFlight ==
    /\ [](/\ Cardinality(GeminiInFlight) <= 1
          /\ GeminiInFlight # {} => is_processing)
    /\ [][\A c \in Handlers :
            (epc[c] = "check" /\ epc'[c] # "check" /\ GeminiInFlight \ {c} # {})
                => /\ epc'[c] = "done"
                   /\ enhance_response'[c].status = "busy"]_vars

====
